--------------------------- MODULE Spec2Model ---------------------------
(***************************************************************************)
(* A model of the wabt core: the opcode catalogue (opcode.def), and the    *)
(* IR data structures of src/ir.h (Var, LocalTypes, Func, Module with its  *)
(* function types and segments, Script).  Each component has its own       *)
(* specification over its own variables; the variables of the other        *)
(* components stay at their initial values.                                *)
(***************************************************************************)
EXTENDS Integers, Sequences, FiniteSets, TLC

VARIABLES
  op_query,     \* the last catalogue query: [kind, cur, prefix, code, text]
  op_result,    \* its answer: [opcode, bytes, tr, operands]
  var_type,     \* Var::type_
  var_index_,   \* Var::index_ (union member)
  var_name_,    \* Var::name_  (union member)
  var_prev,     \* the mutating call before the last one
  var_last,     \* the last constructor / set_index / set_name call
  var_ret,      \* outcome of the last accessor call
  lt_decls,     \* LocalTypes::decls_
  lt_set,       \* argument of the last Set, while no AppendDecl followed it
  lt_it,        \* a live const_iterator over decls_
  lt_out,       \* the types the live iterator has yielded so far
  lt_last,      \* the last Set / AppendDecl call and decls_ before it
  m_fields,     \* Module::fields, in the order they were appended
  m_handles,    \* Module::funcs, tables, ...: per kind, handles into fields
  m_imports,    \* Module::imports: handles into fields
  m_num_imports,\* Module::num_func_imports, num_table_imports, ...
  m_bindings,   \* Module::func_bindings, table_bindings, ...
  m_last,       \* the last AppendField call
  s_commands,   \* Script::commands
  s_ret,        \* outcome of the last Script::GetFirstModule call
  f_func,       \* a Func: its decl, local_types and bindings
  f_ret         \* outcome of the last call on the Func, until consumed

opVars  == <<op_query, op_result>>
varVars == <<var_type, var_index_, var_name_, var_prev, var_last, var_ret>>
ltVars  == <<lt_decls, lt_set, lt_it, lt_out, lt_last>>
modVars == <<m_fields, m_handles, m_imports, m_num_imports, m_bindings,
             m_last>>
scriptVars == <<s_commands, s_ret>>
funcVars == <<f_func, f_ret>>
vars    == <<op_query, op_result,
             var_type, var_index_, var_name_, var_prev, var_last, var_ret,
             lt_decls, lt_set, lt_it, lt_out, lt_last,
             m_fields, m_handles, m_imports, m_num_imports, m_bindings,
             m_last, s_commands, s_ret, f_func, f_ret>>

(***************************************************************************)
(* Opcode catalogue                                                        *)
(***************************************************************************)

\* One row of the table; the columns are those of the legend
\* (tr, t1, t2, t3, m, prefix, code, Name, text, decomp).
WABT_OPCODE(tr, t1, t2, t3, m, prefix, code, Name, text, decomp) ==
  [tr |-> tr, t1 |-> t1, t2 |-> t2, t3 |-> t3, m |-> m,
   prefix |-> prefix, code |-> code, Name |-> Name, text |-> text,
   decomp |-> decomp]

\* MVP opcodes: part_000 lines 185-363.
BaseOpcodes ==
  <<
    WABT_OPCODE("___", "___", "___", "___", 0,  0,    \h00, "Unreachable", "unreachable", ""),
    WABT_OPCODE("___", "___", "___", "___", 0,  0,    \h01, "Nop", "nop", ""),
    WABT_OPCODE("___", "___", "___", "___", 0,  0,    \h02, "Block", "block", ""),
    WABT_OPCODE("___", "___", "___", "___", 0,  0,    \h03, "Loop", "loop", ""),
    WABT_OPCODE("___", "___", "___", "___", 0,  0,    \h04, "If", "if", ""),
    WABT_OPCODE("___", "___", "___", "___", 0,  0,    \h05, "Else", "else", ""),
    WABT_OPCODE("___", "___", "___", "___", 0,  0,    \h06, "Try", "try", ""),
    WABT_OPCODE("___", "___", "___", "___", 0,  0,    \h07, "Catch", "catch", ""),
    WABT_OPCODE("___", "___", "___", "___", 0,  0,    \h08, "Throw", "throw", ""),
    WABT_OPCODE("___", "___", "___", "___", 0,  0,    \h09, "Rethrow", "rethrow", ""),
    WABT_OPCODE("___", "___", "___", "___", 0,  0,    \h0a, "BrOnExn", "br_on_exn", ""),
    WABT_OPCODE("___", "___", "___", "___", 0,  0,    \h0b, "End", "end", ""),
    WABT_OPCODE("___", "___", "___", "___", 0,  0,    \h0c, "Br", "br", ""),
    WABT_OPCODE("___", "___", "___", "___", 0,  0,    \h0d, "BrIf", "br_if", ""),
    WABT_OPCODE("___", "___", "___", "___", 0,  0,    \h0e, "BrTable", "br_table", ""),
    WABT_OPCODE("___", "___", "___", "___", 0,  0,    \h0f, "Return", "return", ""),
    WABT_OPCODE("___", "___", "___", "___", 0,  0,    \h10, "Call", "call", ""),
    WABT_OPCODE("___", "___", "___", "___", 0,  0,    \h11, "CallIndirect", "call_indirect", ""),
    WABT_OPCODE("___", "___", "___", "___", 0,  0,    \h12, "ReturnCall", "return_call", ""),
    WABT_OPCODE("___", "___", "___", "___", 0,  0,    \h13, "ReturnCallIndirect", "return_call_indirect", ""),
    WABT_OPCODE("___", "___", "___", "___", 0,  0,    \h1a, "Drop", "drop", ""),
    WABT_OPCODE("___", "___", "___", "___", 0,  0,    \h1b, "Select", "select", ""),
    WABT_OPCODE("___", "___", "___", "___", 0,  0,    \h20, "LocalGet", "local.get", ""),
    WABT_OPCODE("___", "___", "___", "___", 0,  0,    \h21, "LocalSet", "local.set", ""),
    WABT_OPCODE("___", "___", "___", "___", 0,  0,    \h22, "LocalTee", "local.tee", ""),
    WABT_OPCODE("___", "___", "___", "___", 0,  0,    \h23, "GlobalGet", "global.get", ""),
    WABT_OPCODE("___", "___", "___", "___", 0,  0,    \h24, "GlobalSet", "global.set", ""),
    WABT_OPCODE("I32", "I32", "___", "___", 4,  0,    \h28, "I32Load", "i32.load", ""),
    WABT_OPCODE("I64", "I32", "___", "___", 8,  0,    \h29, "I64Load", "i64.load", ""),
    WABT_OPCODE("F32", "I32", "___", "___", 4,  0,    \h2a, "F32Load", "f32.load", ""),
    WABT_OPCODE("F64", "I32", "___", "___", 8,  0,    \h2b, "F64Load", "f64.load", ""),
    WABT_OPCODE("I32", "I32", "___", "___", 1,  0,    \h2c, "I32Load8S", "i32.load8_s", ""),
    WABT_OPCODE("I32", "I32", "___", "___", 1,  0,    \h2d, "I32Load8U", "i32.load8_u", ""),
    WABT_OPCODE("I32", "I32", "___", "___", 2,  0,    \h2e, "I32Load16S", "i32.load16_s", ""),
    WABT_OPCODE("I32", "I32", "___", "___", 2,  0,    \h2f, "I32Load16U", "i32.load16_u", ""),
    WABT_OPCODE("I64", "I32", "___", "___", 1,  0,    \h30, "I64Load8S", "i64.load8_s", ""),
    WABT_OPCODE("I64", "I32", "___", "___", 1,  0,    \h31, "I64Load8U", "i64.load8_u", ""),
    WABT_OPCODE("I64", "I32", "___", "___", 2,  0,    \h32, "I64Load16S", "i64.load16_s", ""),
    WABT_OPCODE("I64", "I32", "___", "___", 2,  0,    \h33, "I64Load16U", "i64.load16_u", ""),
    WABT_OPCODE("I64", "I32", "___", "___", 4,  0,    \h34, "I64Load32S", "i64.load32_s", ""),
    WABT_OPCODE("I64", "I32", "___", "___", 4,  0,    \h35, "I64Load32U", "i64.load32_u", ""),
    WABT_OPCODE("___", "I32", "I32", "___", 4,  0,    \h36, "I32Store", "i32.store", ""),
    WABT_OPCODE("___", "I32", "I64", "___", 8,  0,    \h37, "I64Store", "i64.store", ""),
    WABT_OPCODE("___", "I32", "F32", "___", 4,  0,    \h38, "F32Store", "f32.store", ""),
    WABT_OPCODE("___", "I32", "F64", "___", 8,  0,    \h39, "F64Store", "f64.store", ""),
    WABT_OPCODE("___", "I32", "I32", "___", 1,  0,    \h3a, "I32Store8", "i32.store8", ""),
    WABT_OPCODE("___", "I32", "I32", "___", 2,  0,    \h3b, "I32Store16", "i32.store16", ""),
    WABT_OPCODE("___", "I32", "I64", "___", 1,  0,    \h3c, "I64Store8", "i64.store8", ""),
    WABT_OPCODE("___", "I32", "I64", "___", 2,  0,    \h3d, "I64Store16", "i64.store16", ""),
    WABT_OPCODE("___", "I32", "I64", "___", 4,  0,    \h3e, "I64Store32", "i64.store32", ""),
    WABT_OPCODE("I32", "___", "___", "___", 0,  0,    \h3f, "MemorySize", "memory.size", ""),
    WABT_OPCODE("I32", "I32", "___", "___", 0,  0,    \h40, "MemoryGrow", "memory.grow", ""),
    WABT_OPCODE("I32", "___", "___", "___", 0,  0,    \h41, "I32Const", "i32.const", ""),
    WABT_OPCODE("I64", "___", "___", "___", 0,  0,    \h42, "I64Const", "i64.const", ""),
    WABT_OPCODE("F32", "___", "___", "___", 0,  0,    \h43, "F32Const", "f32.const", ""),
    WABT_OPCODE("F64", "___", "___", "___", 0,  0,    \h44, "F64Const", "f64.const", ""),
    WABT_OPCODE("I32", "I32", "___", "___", 0,  0,    \h45, "I32Eqz", "i32.eqz", "=="),
    WABT_OPCODE("I32", "I32", "I32", "___", 0,  0,    \h46, "I32Eq", "i32.eq", "=="),
    WABT_OPCODE("I32", "I32", "I32", "___", 0,  0,    \h47, "I32Ne", "i32.ne", "!="),
    WABT_OPCODE("I32", "I32", "I32", "___", 0,  0,    \h48, "I32LtS", "i32.lt_s", "<"),
    WABT_OPCODE("I32", "I32", "I32", "___", 0,  0,    \h49, "I32LtU", "i32.lt_u", "<"),
    WABT_OPCODE("I32", "I32", "I32", "___", 0,  0,    \h4a, "I32GtS", "i32.gt_s", ">"),
    WABT_OPCODE("I32", "I32", "I32", "___", 0,  0,    \h4b, "I32GtU", "i32.gt_u", ">"),
    WABT_OPCODE("I32", "I32", "I32", "___", 0,  0,    \h4c, "I32LeS", "i32.le_s", "<="),
    WABT_OPCODE("I32", "I32", "I32", "___", 0,  0,    \h4d, "I32LeU", "i32.le_u", "<="),
    WABT_OPCODE("I32", "I32", "I32", "___", 0,  0,    \h4e, "I32GeS", "i32.ge_s", ">="),
    WABT_OPCODE("I32", "I32", "I32", "___", 0,  0,    \h4f, "I32GeU", "i32.ge_u", ">="),
    WABT_OPCODE("I32", "I64", "___", "___", 0,  0,    \h50, "I64Eqz", "i64.eqz", "=="),
    WABT_OPCODE("I32", "I64", "I64", "___", 0,  0,    \h51, "I64Eq", "i64.eq", "=="),
    WABT_OPCODE("I32", "I64", "I64", "___", 0,  0,    \h52, "I64Ne", "i64.ne", "!="),
    WABT_OPCODE("I32", "I64", "I64", "___", 0,  0,    \h53, "I64LtS", "i64.lt_s", "<"),
    WABT_OPCODE("I32", "I64", "I64", "___", 0,  0,    \h54, "I64LtU", "i64.lt_u", "<"),
    WABT_OPCODE("I32", "I64", "I64", "___", 0,  0,    \h55, "I64GtS", "i64.gt_s", ">"),
    WABT_OPCODE("I32", "I64", "I64", "___", 0,  0,    \h56, "I64GtU", "i64.gt_u", ">"),
    WABT_OPCODE("I32", "I64", "I64", "___", 0,  0,    \h57, "I64LeS", "i64.le_s", "<="),
    WABT_OPCODE("I32", "I64", "I64", "___", 0,  0,    \h58, "I64LeU", "i64.le_u", "<="),
    WABT_OPCODE("I32", "I64", "I64", "___", 0,  0,    \h59, "I64GeS", "i64.ge_s", ">="),
    WABT_OPCODE("I32", "I64", "I64", "___", 0,  0,    \h5a, "I64GeU", "i64.ge_u", ">="),
    WABT_OPCODE("I32", "F32", "F32", "___", 0,  0,    \h5b, "F32Eq", "f32.eq", "=="),
    WABT_OPCODE("I32", "F32", "F32", "___", 0,  0,    \h5c, "F32Ne", "f32.ne", "!="),
    WABT_OPCODE("I32", "F32", "F32", "___", 0,  0,    \h5d, "F32Lt", "f32.lt", "<"),
    WABT_OPCODE("I32", "F32", "F32", "___", 0,  0,    \h5e, "F32Gt", "f32.gt", ">"),
    WABT_OPCODE("I32", "F32", "F32", "___", 0,  0,    \h5f, "F32Le", "f32.le", "<="),
    WABT_OPCODE("I32", "F32", "F32", "___", 0,  0,    \h60, "F32Ge", "f32.ge", ">="),
    WABT_OPCODE("I32", "F64", "F64", "___", 0,  0,    \h61, "F64Eq", "f64.eq", "=="),
    WABT_OPCODE("I32", "F64", "F64", "___", 0,  0,    \h62, "F64Ne", "f64.ne", "!="),
    WABT_OPCODE("I32", "F64", "F64", "___", 0,  0,    \h63, "F64Lt", "f64.lt", "<"),
    WABT_OPCODE("I32", "F64", "F64", "___", 0,  0,    \h64, "F64Gt", "f64.gt", ">"),
    WABT_OPCODE("I32", "F64", "F64", "___", 0,  0,    \h65, "F64Le", "f64.le", "<="),
    WABT_OPCODE("I32", "F64", "F64", "___", 0,  0,    \h66, "F64Ge", "f64.ge", ">="),
    WABT_OPCODE("I32", "I32", "___", "___", 0,  0,    \h67, "I32Clz", "i32.clz", "clz"),
    WABT_OPCODE("I32", "I32", "___", "___", 0,  0,    \h68, "I32Ctz", "i32.ctz", "ctz"),
    WABT_OPCODE("I32", "I32", "___", "___", 0,  0,    \h69, "I32Popcnt", "i32.popcnt", "popcnt"),
    WABT_OPCODE("I32", "I32", "I32", "___", 0,  0,    \h6a, "I32Add", "i32.add", "+"),
    WABT_OPCODE("I32", "I32", "I32", "___", 0,  0,    \h6b, "I32Sub", "i32.sub", "-"),
    WABT_OPCODE("I32", "I32", "I32", "___", 0,  0,    \h6c, "I32Mul", "i32.mul", "*"),
    WABT_OPCODE("I32", "I32", "I32", "___", 0,  0,    \h6d, "I32DivS", "i32.div_s", "/"),
    WABT_OPCODE("I32", "I32", "I32", "___", 0,  0,    \h6e, "I32DivU", "i32.div_u", "/"),
    WABT_OPCODE("I32", "I32", "I32", "___", 0,  0,    \h6f, "I32RemS", "i32.rem_s", "%"),
    WABT_OPCODE("I32", "I32", "I32", "___", 0,  0,    \h70, "I32RemU", "i32.rem_u", "%"),
    WABT_OPCODE("I32", "I32", "I32", "___", 0,  0,    \h71, "I32And", "i32.and", "&"),
    WABT_OPCODE("I32", "I32", "I32", "___", 0,  0,    \h72, "I32Or", "i32.or", "|"),
    WABT_OPCODE("I32", "I32", "I32", "___", 0,  0,    \h73, "I32Xor", "i32.xor", "^"),
    WABT_OPCODE("I32", "I32", "I32", "___", 0,  0,    \h74, "I32Shl", "i32.shl", "<<"),
    WABT_OPCODE("I32", "I32", "I32", "___", 0,  0,    \h75, "I32ShrS", "i32.shr_s", ">>"),
    WABT_OPCODE("I32", "I32", "I32", "___", 0,  0,    \h76, "I32ShrU", "i32.shr_u", ">>"),
    WABT_OPCODE("I32", "I32", "I32", "___", 0,  0,    \h77, "I32Rotl", "i32.rotl", "<<"),
    WABT_OPCODE("I32", "I32", "I32", "___", 0,  0,    \h78, "I32Rotr", "i32.rotr", ">>"),
    WABT_OPCODE("I64", "I64", "___", "___", 0,  0,    \h79, "I64Clz", "i64.clz", "clz"),
    WABT_OPCODE("I64", "I64", "___", "___", 0,  0,    \h7a, "I64Ctz", "i64.ctz", "ctz"),
    WABT_OPCODE("I64", "I64", "___", "___", 0,  0,    \h7b, "I64Popcnt", "i64.popcnt", "popcnt"),
    WABT_OPCODE("I64", "I64", "I64", "___", 0,  0,    \h7c, "I64Add", "i64.add", "+"),
    WABT_OPCODE("I64", "I64", "I64", "___", 0,  0,    \h7d, "I64Sub", "i64.sub", "-"),
    WABT_OPCODE("I64", "I64", "I64", "___", 0,  0,    \h7e, "I64Mul", "i64.mul", "*"),
    WABT_OPCODE("I64", "I64", "I64", "___", 0,  0,    \h7f, "I64DivS", "i64.div_s", "/"),
    WABT_OPCODE("I64", "I64", "I64", "___", 0,  0,    \h80, "I64DivU", "i64.div_u", "/"),
    WABT_OPCODE("I64", "I64", "I64", "___", 0,  0,    \h81, "I64RemS", "i64.rem_s", "%"),
    WABT_OPCODE("I64", "I64", "I64", "___", 0,  0,    \h82, "I64RemU", "i64.rem_u", "%"),
    WABT_OPCODE("I64", "I64", "I64", "___", 0,  0,    \h83, "I64And", "i64.and", "&"),
    WABT_OPCODE("I64", "I64", "I64", "___", 0,  0,    \h84, "I64Or", "i64.or", "|"),
    WABT_OPCODE("I64", "I64", "I64", "___", 0,  0,    \h85, "I64Xor", "i64.xor", "^"),
    WABT_OPCODE("I64", "I64", "I64", "___", 0,  0,    \h86, "I64Shl", "i64.shl", "<<"),
    WABT_OPCODE("I64", "I64", "I64", "___", 0,  0,    \h87, "I64ShrS", "i64.shr_s", ">>"),
    WABT_OPCODE("I64", "I64", "I64", "___", 0,  0,    \h88, "I64ShrU", "i64.shr_u", ">>"),
    WABT_OPCODE("I64", "I64", "I64", "___", 0,  0,    \h89, "I64Rotl", "i64.rotl", "<<"),
    WABT_OPCODE("I64", "I64", "I64", "___", 0,  0,    \h8a, "I64Rotr", "i64.rotr", ">>"),
    WABT_OPCODE("F32", "F32", "F32", "___", 0,  0,    \h8b, "F32Abs", "f32.abs", "abs"),
    WABT_OPCODE("F32", "F32", "F32", "___", 0,  0,    \h8c, "F32Neg", "f32.neg", "-"),
    WABT_OPCODE("F32", "F32", "F32", "___", 0,  0,    \h8d, "F32Ceil", "f32.ceil", "ceil"),
    WABT_OPCODE("F32", "F32", "F32", "___", 0,  0,    \h8e, "F32Floor", "f32.floor", "floor"),
    WABT_OPCODE("F32", "F32", "F32", "___", 0,  0,    \h8f, "F32Trunc", "f32.trunc", "trunc"),
    WABT_OPCODE("F32", "F32", "F32", "___", 0,  0,    \h90, "F32Nearest", "f32.nearest", "nearest"),
    WABT_OPCODE("F32", "F32", "F32", "___", 0,  0,    \h91, "F32Sqrt", "f32.sqrt", "sqrt"),
    WABT_OPCODE("F32", "F32", "F32", "___", 0,  0,    \h92, "F32Add", "f32.add", "+"),
    WABT_OPCODE("F32", "F32", "F32", "___", 0,  0,    \h93, "F32Sub", "f32.sub", "-"),
    WABT_OPCODE("F32", "F32", "F32", "___", 0,  0,    \h94, "F32Mul", "f32.mul", "*"),
    WABT_OPCODE("F32", "F32", "F32", "___", 0,  0,    \h95, "F32Div", "f32.div", "/"),
    WABT_OPCODE("F32", "F32", "F32", "___", 0,  0,    \h96, "F32Min", "f32.min", "min"),
    WABT_OPCODE("F32", "F32", "F32", "___", 0,  0,    \h97, "F32Max", "f32.max", "max"),
    WABT_OPCODE("F32", "F32", "F32", "___", 0,  0,    \h98, "F32Copysign", "f32.copysign", "copysign"),
    WABT_OPCODE("F64", "F64", "F64", "___", 0,  0,    \h99, "F64Abs", "f64.abs", "abs"),
    WABT_OPCODE("F64", "F64", "F64", "___", 0,  0,    \h9a, "F64Neg", "f64.neg", "-"),
    WABT_OPCODE("F64", "F64", "F64", "___", 0,  0,    \h9b, "F64Ceil", "f64.ceil", "ceil"),
    WABT_OPCODE("F64", "F64", "F64", "___", 0,  0,    \h9c, "F64Floor", "f64.floor", "floor"),
    WABT_OPCODE("F64", "F64", "F64", "___", 0,  0,    \h9d, "F64Trunc", "f64.trunc", "trunc"),
    WABT_OPCODE("F64", "F64", "F64", "___", 0,  0,    \h9e, "F64Nearest", "f64.nearest", "nearest"),
    WABT_OPCODE("F64", "F64", "F64", "___", 0,  0,    \h9f, "F64Sqrt", "f64.sqrt", "sqrt"),
    WABT_OPCODE("F64", "F64", "F64", "___", 0,  0,    \ha0, "F64Add", "f64.add", "+"),
    WABT_OPCODE("F64", "F64", "F64", "___", 0,  0,    \ha1, "F64Sub", "f64.sub", "-"),
    WABT_OPCODE("F64", "F64", "F64", "___", 0,  0,    \ha2, "F64Mul", "f64.mul", "*"),
    WABT_OPCODE("F64", "F64", "F64", "___", 0,  0,    \ha3, "F64Div", "f64.div", "/"),
    WABT_OPCODE("F64", "F64", "F64", "___", 0,  0,    \ha4, "F64Min", "f64.min", "min"),
    WABT_OPCODE("F64", "F64", "F64", "___", 0,  0,    \ha5, "F64Max", "f64.max", "max"),
    WABT_OPCODE("F64", "F64", "F64", "___", 0,  0,    \ha6, "F64Copysign", "f64.copysign", "copysign"),
    WABT_OPCODE("I32", "I64", "___", "___", 0,  0,    \ha7, "I32WrapI64", "i32.wrap_i64", ""),
    WABT_OPCODE("I32", "F32", "___", "___", 0,  0,    \ha8, "I32TruncF32S", "i32.trunc_f32_s", ""),
    WABT_OPCODE("I32", "F32", "___", "___", 0,  0,    \ha9, "I32TruncF32U", "i32.trunc_f32_u", ""),
    WABT_OPCODE("I32", "F64", "___", "___", 0,  0,    \haa, "I32TruncF64S", "i32.trunc_f64_s", ""),
    WABT_OPCODE("I32", "F64", "___", "___", 0,  0,    \hab, "I32TruncF64U", "i32.trunc_f64_u", ""),
    WABT_OPCODE("I64", "I32", "___", "___", 0,  0,    \hac, "I64ExtendI32S", "i64.extend_i32_s", ""),
    WABT_OPCODE("I64", "I32", "___", "___", 0,  0,    \had, "I64ExtendI32U", "i64.extend_i32_u", ""),
    WABT_OPCODE("I64", "F32", "___", "___", 0,  0,    \hae, "I64TruncF32S", "i64.trunc_f32_s", ""),
    WABT_OPCODE("I64", "F32", "___", "___", 0,  0,    \haf, "I64TruncF32U", "i64.trunc_f32_u", ""),
    WABT_OPCODE("I64", "F64", "___", "___", 0,  0,    \hb0, "I64TruncF64S", "i64.trunc_f64_s", ""),
    WABT_OPCODE("I64", "F64", "___", "___", 0,  0,    \hb1, "I64TruncF64U", "i64.trunc_f64_u", ""),
    WABT_OPCODE("F32", "I32", "___", "___", 0,  0,    \hb2, "F32ConvertI32S", "f32.convert_i32_s", ""),
    WABT_OPCODE("F32", "I32", "___", "___", 0,  0,    \hb3, "F32ConvertI32U", "f32.convert_i32_u", ""),
    WABT_OPCODE("F32", "I64", "___", "___", 0,  0,    \hb4, "F32ConvertI64S", "f32.convert_i64_s", ""),
    WABT_OPCODE("F32", "I64", "___", "___", 0,  0,    \hb5, "F32ConvertI64U", "f32.convert_i64_u", ""),
    WABT_OPCODE("F32", "F64", "___", "___", 0,  0,    \hb6, "F32DemoteF64", "f32.demote_f64", ""),
    WABT_OPCODE("F64", "I32", "___", "___", 0,  0,    \hb7, "F64ConvertI32S", "f64.convert_i32_s", ""),
    WABT_OPCODE("F64", "I32", "___", "___", 0,  0,    \hb8, "F64ConvertI32U", "f64.convert_i32_u", ""),
    WABT_OPCODE("F64", "I64", "___", "___", 0,  0,    \hb9, "F64ConvertI64S", "f64.convert_i64_s", ""),
    WABT_OPCODE("F64", "I64", "___", "___", 0,  0,    \hba, "F64ConvertI64U", "f64.convert_i64_u", ""),
    WABT_OPCODE("F64", "F32", "___", "___", 0,  0,    \hbb, "F64PromoteF32", "f64.promote_f32", ""),
    WABT_OPCODE("I32", "F32", "___", "___", 0,  0,    \hbc, "I32ReinterpretF32", "i32.reinterpret_f32", ""),
    WABT_OPCODE("I64", "F64", "___", "___", 0,  0,    \hbd, "I64ReinterpretF64", "i64.reinterpret_f64", ""),
    WABT_OPCODE("F32", "I32", "___", "___", 0,  0,    \hbe, "F32ReinterpretI32", "f32.reinterpret_i32", ""),
    WABT_OPCODE("F64", "I64", "___", "___", 0,  0,    \hbf, "F64ReinterpretI64", "f64.reinterpret_i64", "")
  >>

\* Sign-extension opcodes (--enable-sign-extension): part_000 lines 366-370.
SignExtensionOpcodes ==
  <<
    WABT_OPCODE("I32", "I32", "___", "___", 0,  0,    \hc0, "I32Extend8S", "i32.extend8_s", ""),
    WABT_OPCODE("I32", "I32", "___", "___", 0,  0,    \hc1, "I32Extend16S", "i32.extend16_s", ""),
    WABT_OPCODE("I64", "I64", "___", "___", 0,  0,    \hc2, "I64Extend8S", "i64.extend8_s", ""),
    WABT_OPCODE("I64", "I64", "___", "___", 0,  0,    \hc3, "I64Extend16S", "i64.extend16_s", ""),
    WABT_OPCODE("I64", "I64", "___", "___", 0,  0,    \hc4, "I64Extend32S", "i64.extend32_s", "")
  >>

\* Interpreter-only opcodes: part_000 lines 373-377.
InterpOpcodes ==
  <<
    WABT_OPCODE("___", "___", "___", "___", 0,  0,    \he0, "InterpAlloca", "alloca", ""),
    WABT_OPCODE("___", "___", "___", "___", 0,  0,    \he1, "InterpBrUnless", "br_unless", ""),
    WABT_OPCODE("___", "___", "___", "___", 0,  0,    \he2, "InterpCallHost", "call_host", ""),
    WABT_OPCODE("___", "___", "___", "___", 0,  0,    \he3, "InterpData", "data", ""),
    WABT_OPCODE("___", "___", "___", "___", 0,  0,    \he4, "InterpDropKeep", "drop_keep", "")
  >>

\* Saturating float-to-int opcodes (--enable-saturating-float-to-int): part_000 lines 380-387.
SaturatingOpcodes ==
  <<
    WABT_OPCODE("I32", "F32", "___", "___", 0,  \hfc, \h00, "I32TruncSatF32S", "i32.trunc_sat_f32_s", ""),
    WABT_OPCODE("I32", "F32", "___", "___", 0,  \hfc, \h01, "I32TruncSatF32U", "i32.trunc_sat_f32_u", ""),
    WABT_OPCODE("I32", "F64", "___", "___", 0,  \hfc, \h02, "I32TruncSatF64S", "i32.trunc_sat_f64_s", ""),
    WABT_OPCODE("I32", "F64", "___", "___", 0,  \hfc, \h03, "I32TruncSatF64U", "i32.trunc_sat_f64_u", ""),
    WABT_OPCODE("I64", "F32", "___", "___", 0,  \hfc, \h04, "I64TruncSatF32S", "i64.trunc_sat_f32_s", ""),
    WABT_OPCODE("I64", "F32", "___", "___", 0,  \hfc, \h05, "I64TruncSatF32U", "i64.trunc_sat_f32_u", ""),
    WABT_OPCODE("I64", "F64", "___", "___", 0,  \hfc, \h06, "I64TruncSatF64S", "i64.trunc_sat_f64_s", ""),
    WABT_OPCODE("I64", "F64", "___", "___", 0,  \hfc, \h07, "I64TruncSatF64U", "i64.trunc_sat_f64_u", "")
  >>

\* Bulk-memory (--enable-bulk-memory): part_000 lines 390-396.
BulkMemoryOpcodes ==
  <<
    WABT_OPCODE("___", "I32", "I32", "I32", 0,  \hfc, \h08, "MemoryInit", "memory.init", ""),
    WABT_OPCODE("___", "___", "___", "___", 0,  \hfc, \h09, "DataDrop", "data.drop", ""),
    WABT_OPCODE("___", "I32", "I32", "I32", 0,  \hfc, \h0a, "MemoryCopy", "memory.copy", ""),
    WABT_OPCODE("___", "I32", "I32", "I32", 0,  \hfc, \h0b, "MemoryFill", "memory.fill", ""),
    WABT_OPCODE("___", "I32", "I32", "I32", 0,  \hfc, \h0c, "TableInit", "table.init", ""),
    WABT_OPCODE("___", "___", "___", "___", 0,  \hfc, \h0d, "ElemDrop", "elem.drop", ""),
    WABT_OPCODE("___", "I32", "I32", "I32", 0,  \hfc, \h0e, "TableCopy", "table.copy", "")
  >>

\* Reference types (--enable-reference-types): part_000 lines 399-405.
ReferenceTypesOpcodes ==
  <<
    WABT_OPCODE("___", "___", "___", "___", 0,  0,    \h25, "TableGet", "table.get", ""),
    WABT_OPCODE("___", "___", "___", "___", 0,  0,    \h26, "TableSet", "table.set", ""),
    WABT_OPCODE("___", "___", "___", "___", 0,  \hfc, \h0f, "TableGrow", "table.grow", ""),
    WABT_OPCODE("___", "___", "___", "___", 0,  \hfc, \h10, "TableSize", "table.size", ""),
    WABT_OPCODE("___", "___", "___", "___", 0,  0,    \hd0, "RefNull", "ref.null", ""),
    WABT_OPCODE("___", "___", "___", "___", 0,  0,    \hd1, "RefIsNull", "ref.is_null", ""),
    WABT_OPCODE("___", "___", "___", "___", 0,  0,    \hd2, "RefFunc", "ref.func", "")
  >>

\* Simd opcodes (--enable-simd): part_000 lines 408-552.
SimdOpcodes ==
  <<
    WABT_OPCODE("V128", "I32", "___", "___", 16, \hfd, \h00, "V128Load", "v128.load", ""),
    WABT_OPCODE("___", "I32", "V128", "___", 16, \hfd, \h01, "V128Store", "v128.store", ""),
    WABT_OPCODE("V128", "___", "___", "___", 0,  \hfd, \h02, "V128Const", "v128.const", ""),
    WABT_OPCODE("V128", "I32", "___", "___", 0,  \hfd, \h04, "I8X16Splat", "i8x16.splat", ""),
    WABT_OPCODE("I32", "V128", "___", "___", 0,  \hfd, \h05, "I8X16ExtractLaneS", "i8x16.extract_lane_s", ""),
    WABT_OPCODE("I32", "V128", "___", "___", 0,  \hfd, \h06, "I8X16ExtractLaneU", "i8x16.extract_lane_u", ""),
    WABT_OPCODE("V128", "V128", "I32", "___", 0,  \hfd, \h07, "I8X16ReplaceLane", "i8x16.replace_lane", ""),
    WABT_OPCODE("V128", "I32", "___", "___", 0,  \hfd, \h08, "I16X8Splat", "i16x8.splat", ""),
    WABT_OPCODE("I32", "V128", "___", "___", 0,  \hfd, \h09, "I16X8ExtractLaneS", "i16x8.extract_lane_s", ""),
    WABT_OPCODE("I32", "V128", "___", "___", 0,  \hfd, \h0a, "I16X8ExtractLaneU", "i16x8.extract_lane_u", ""),
    WABT_OPCODE("V128", "V128", "I32", "___", 0,  \hfd, \h0b, "I16X8ReplaceLane", "i16x8.replace_lane", ""),
    WABT_OPCODE("V128", "I32", "___", "___", 0,  \hfd, \h0c, "I32X4Splat", "i32x4.splat", ""),
    WABT_OPCODE("I32", "V128", "___", "___", 0,  \hfd, \h0d, "I32X4ExtractLane", "i32x4.extract_lane", ""),
    WABT_OPCODE("V128", "V128", "I32", "___", 0,  \hfd, \h0e, "I32X4ReplaceLane", "i32x4.replace_lane", ""),
    WABT_OPCODE("V128", "I64", "___", "___", 0,  \hfd, \h0f, "I64X2Splat", "i64x2.splat", ""),
    WABT_OPCODE("I64", "V128", "___", "___", 0,  \hfd, \h10, "I64X2ExtractLane", "i64x2.extract_lane", ""),
    WABT_OPCODE("V128", "V128", "I64", "___", 0,  \hfd, \h11, "I64X2ReplaceLane", "i64x2.replace_lane", ""),
    WABT_OPCODE("V128", "F32", "___", "___", 0,  \hfd, \h12, "F32X4Splat", "f32x4.splat", ""),
    WABT_OPCODE("F32", "V128", "___", "___", 0,  \hfd, \h13, "F32X4ExtractLane", "f32x4.extract_lane", ""),
    WABT_OPCODE("V128", "V128", "F32", "___", 0,  \hfd, \h14, "F32X4ReplaceLane", "f32x4.replace_lane", ""),
    WABT_OPCODE("V128", "F64", "___", "___", 0,  \hfd, \h15, "F64X2Splat", "f64x2.splat", ""),
    WABT_OPCODE("F64", "V128", "___", "___", 0,  \hfd, \h16, "F64X2ExtractLane", "f64x2.extract_lane", ""),
    WABT_OPCODE("V128", "V128", "F64", "___", 0,  \hfd, \h17, "F64X2ReplaceLane", "f64x2.replace_lane", ""),
    WABT_OPCODE("V128", "V128", "V128", "___", 0,  \hfd, \h18, "I8X16Eq", "i8x16.eq", ""),
    WABT_OPCODE("V128", "V128", "V128", "___", 0,  \hfd, \h19, "I8X16Ne", "i8x16.ne", ""),
    WABT_OPCODE("V128", "V128", "V128", "___", 0,  \hfd, \h1a, "I8X16LtS", "i8x16.lt_s", ""),
    WABT_OPCODE("V128", "V128", "V128", "___", 0,  \hfd, \h1b, "I8X16LtU", "i8x16.lt_u", ""),
    WABT_OPCODE("V128", "V128", "V128", "___", 0,  \hfd, \h1c, "I8X16GtS", "i8x16.gt_s", ""),
    WABT_OPCODE("V128", "V128", "V128", "___", 0,  \hfd, \h1d, "I8X16GtU", "i8x16.gt_u", ""),
    WABT_OPCODE("V128", "V128", "V128", "___", 0,  \hfd, \h1e, "I8X16LeS", "i8x16.le_s", ""),
    WABT_OPCODE("V128", "V128", "V128", "___", 0,  \hfd, \h1f, "I8X16LeU", "i8x16.le_u", ""),
    WABT_OPCODE("V128", "V128", "V128", "___", 0,  \hfd, \h20, "I8X16GeS", "i8x16.ge_s", ""),
    WABT_OPCODE("V128", "V128", "V128", "___", 0,  \hfd, \h21, "I8X16GeU", "i8x16.ge_u", ""),
    WABT_OPCODE("V128", "V128", "V128", "___", 0,  \hfd, \h22, "I16X8Eq", "i16x8.eq", ""),
    WABT_OPCODE("V128", "V128", "V128", "___", 0,  \hfd, \h23, "I16X8Ne", "i16x8.ne", ""),
    WABT_OPCODE("V128", "V128", "V128", "___", 0,  \hfd, \h24, "I16X8LtS", "i16x8.lt_s", ""),
    WABT_OPCODE("V128", "V128", "V128", "___", 0,  \hfd, \h25, "I16X8LtU", "i16x8.lt_u", ""),
    WABT_OPCODE("V128", "V128", "V128", "___", 0,  \hfd, \h26, "I16X8GtS", "i16x8.gt_s", ""),
    WABT_OPCODE("V128", "V128", "V128", "___", 0,  \hfd, \h27, "I16X8GtU", "i16x8.gt_u", ""),
    WABT_OPCODE("V128", "V128", "V128", "___", 0,  \hfd, \h28, "I16X8LeS", "i16x8.le_s", ""),
    WABT_OPCODE("V128", "V128", "V128", "___", 0,  \hfd, \h29, "I16X8LeU", "i16x8.le_u", ""),
    WABT_OPCODE("V128", "V128", "V128", "___", 0,  \hfd, \h2a, "I16X8GeS", "i16x8.ge_s", ""),
    WABT_OPCODE("V128", "V128", "V128", "___", 0,  \hfd, \h2b, "I16X8GeU", "i16x8.ge_u", ""),
    WABT_OPCODE("V128", "V128", "V128", "___", 0,  \hfd, \h2c, "I32X4Eq", "i32x4.eq", ""),
    WABT_OPCODE("V128", "V128", "V128", "___", 0,  \hfd, \h2d, "I32X4Ne", "i32x4.ne", ""),
    WABT_OPCODE("V128", "V128", "V128", "___", 0,  \hfd, \h2e, "I32X4LtS", "i32x4.lt_s", ""),
    WABT_OPCODE("V128", "V128", "V128", "___", 0,  \hfd, \h2f, "I32X4LtU", "i32x4.lt_u", ""),
    WABT_OPCODE("V128", "V128", "V128", "___", 0,  \hfd, \h30, "I32X4GtS", "i32x4.gt_s", ""),
    WABT_OPCODE("V128", "V128", "V128", "___", 0,  \hfd, \h31, "I32X4GtU", "i32x4.gt_u", ""),
    WABT_OPCODE("V128", "V128", "V128", "___", 0,  \hfd, \h32, "I32X4LeS", "i32x4.le_s", ""),
    WABT_OPCODE("V128", "V128", "V128", "___", 0,  \hfd, \h33, "I32X4LeU", "i32x4.le_u", ""),
    WABT_OPCODE("V128", "V128", "V128", "___", 0,  \hfd, \h34, "I32X4GeS", "i32x4.ge_s", ""),
    WABT_OPCODE("V128", "V128", "V128", "___", 0,  \hfd, \h35, "I32X4GeU", "i32x4.ge_u", ""),
    WABT_OPCODE("V128", "V128", "V128", "___", 0,  \hfd, \h40, "F32X4Eq", "f32x4.eq", ""),
    WABT_OPCODE("V128", "V128", "V128", "___", 0,  \hfd, \h41, "F32X4Ne", "f32x4.ne", ""),
    WABT_OPCODE("V128", "V128", "V128", "___", 0,  \hfd, \h42, "F32X4Lt", "f32x4.lt", ""),
    WABT_OPCODE("V128", "V128", "V128", "___", 0,  \hfd, \h43, "F32X4Gt", "f32x4.gt", ""),
    WABT_OPCODE("V128", "V128", "V128", "___", 0,  \hfd, \h44, "F32X4Le", "f32x4.le", ""),
    WABT_OPCODE("V128", "V128", "V128", "___", 0,  \hfd, \h45, "F32X4Ge", "f32x4.ge", ""),
    WABT_OPCODE("V128", "V128", "V128", "___", 0,  \hfd, \h46, "F64X2Eq", "f64x2.eq", ""),
    WABT_OPCODE("V128", "V128", "V128", "___", 0,  \hfd, \h47, "F64X2Ne", "f64x2.ne", ""),
    WABT_OPCODE("V128", "V128", "V128", "___", 0,  \hfd, \h48, "F64X2Lt", "f64x2.lt", ""),
    WABT_OPCODE("V128", "V128", "V128", "___", 0,  \hfd, \h49, "F64X2Gt", "f64x2.gt", ""),
    WABT_OPCODE("V128", "V128", "V128", "___", 0,  \hfd, \h4a, "F64X2Le", "f64x2.le", ""),
    WABT_OPCODE("V128", "V128", "V128", "___", 0,  \hfd, \h4b, "F64X2Ge", "f64x2.ge", ""),
    WABT_OPCODE("V128", "V128", "___", "___", 0,  \hfd, \h4c, "V128Not", "v128.not", ""),
    WABT_OPCODE("V128", "V128", "V128", "___", 0,  \hfd, \h4d, "V128And", "v128.and", ""),
    WABT_OPCODE("V128", "V128", "V128", "___", 0,  \hfd, \h4e, "V128Or", "v128.or", ""),
    WABT_OPCODE("V128", "V128", "V128", "___", 0,  \hfd, \h4f, "V128Xor", "v128.xor", ""),
    WABT_OPCODE("V128", "V128", "V128", "V128", 0,  \hfd, \h50, "V128BitSelect", "v128.bitselect", ""),
    WABT_OPCODE("V128", "V128", "___", "___", 0,  \hfd, \h51, "I8X16Neg", "i8x16.neg", ""),
    WABT_OPCODE("I32", "V128", "___", "___", 0,  \hfd, \h52, "I8X16AnyTrue", "i8x16.any_true", ""),
    WABT_OPCODE("I32", "V128", "___", "___", 0,  \hfd, \h53, "I8X16AllTrue", "i8x16.all_true", ""),
    WABT_OPCODE("V128", "V128", "I32", "___", 0,  \hfd, \h54, "I8X16Shl", "i8x16.shl", ""),
    WABT_OPCODE("V128", "V128", "I32", "___", 0,  \hfd, \h55, "I8X16ShrS", "i8x16.shr_s", ""),
    WABT_OPCODE("V128", "V128", "I32", "___", 0,  \hfd, \h56, "I8X16ShrU", "i8x16.shr_u", ""),
    WABT_OPCODE("V128", "V128", "V128", "___", 0,  \hfd, \h57, "I8X16Add", "i8x16.add", ""),
    WABT_OPCODE("V128", "V128", "V128", "___", 0,  \hfd, \h58, "I8X16AddSaturateS", "i8x16.add_saturate_s", ""),
    WABT_OPCODE("V128", "V128", "V128", "___", 0,  \hfd, \h59, "I8X16AddSaturateU", "i8x16.add_saturate_u", ""),
    WABT_OPCODE("V128", "V128", "V128", "___", 0,  \hfd, \h5a, "I8X16Sub", "i8x16.sub", ""),
    WABT_OPCODE("V128", "V128", "V128", "___", 0,  \hfd, \h5b, "I8X16SubSaturateS", "i8x16.sub_saturate_s", ""),
    WABT_OPCODE("V128", "V128", "V128", "___", 0,  \hfd, \h5c, "I8X16SubSaturateU", "i8x16.sub_saturate_u", ""),
    WABT_OPCODE("V128", "V128", "V128", "___", 0,  \hfd, \h5d, "I8X16Mul", "i8x16.mul", ""),
    WABT_OPCODE("V128", "V128", "___", "___", 0,  \hfd, \h62, "I16X8Neg", "i16x8.neg", ""),
    WABT_OPCODE("I32", "V128", "___", "___", 0,  \hfd, \h63, "I16X8AnyTrue", "i16x8.any_true", ""),
    WABT_OPCODE("I32", "V128", "___", "___", 0,  \hfd, \h64, "I16X8AllTrue", "i16x8.all_true", ""),
    WABT_OPCODE("V128", "V128", "I32", "___", 0,  \hfd, \h65, "I16X8Shl", "i16x8.shl", ""),
    WABT_OPCODE("V128", "V128", "I32", "___", 0,  \hfd, \h66, "I16X8ShrS", "i16x8.shr_s", ""),
    WABT_OPCODE("V128", "V128", "I32", "___", 0,  \hfd, \h67, "I16X8ShrU", "i16x8.shr_u", ""),
    WABT_OPCODE("V128", "V128", "V128", "___", 0,  \hfd, \h68, "I16X8Add", "i16x8.add", ""),
    WABT_OPCODE("V128", "V128", "V128", "___", 0,  \hfd, \h69, "I16X8AddSaturateS", "i16x8.add_saturate_s", ""),
    WABT_OPCODE("V128", "V128", "V128", "___", 0,  \hfd, \h6a, "I16X8AddSaturateU", "i16x8.add_saturate_u", ""),
    WABT_OPCODE("V128", "V128", "V128", "___", 0,  \hfd, \h6b, "I16X8Sub", "i16x8.sub", ""),
    WABT_OPCODE("V128", "V128", "V128", "___", 0,  \hfd, \h6c, "I16X8SubSaturateS", "i16x8.sub_saturate_s", ""),
    WABT_OPCODE("V128", "V128", "V128", "___", 0,  \hfd, \h6d, "I16X8SubSaturateU", "i16x8.sub_saturate_u", ""),
    WABT_OPCODE("V128", "V128", "V128", "___", 0,  \hfd, \h6e, "I16X8Mul", "i16x8.mul", ""),
    WABT_OPCODE("V128", "V128", "___", "___", 0,  \hfd, \h73, "I32X4Neg", "i32x4.neg", ""),
    WABT_OPCODE("I32", "V128", "___", "___", 0,  \hfd, \h74, "I32X4AnyTrue", "i32x4.any_true", ""),
    WABT_OPCODE("I32", "V128", "___", "___", 0,  \hfd, \h75, "I32X4AllTrue", "i32x4.all_true", ""),
    WABT_OPCODE("V128", "V128", "I32", "___", 0,  \hfd, \h76, "I32X4Shl", "i32x4.shl", ""),
    WABT_OPCODE("V128", "V128", "I32", "___", 0,  \hfd, \h77, "I32X4ShrS", "i32x4.shr_s", ""),
    WABT_OPCODE("V128", "V128", "I32", "___", 0,  \hfd, \h78, "I32X4ShrU", "i32x4.shr_u", ""),
    WABT_OPCODE("V128", "V128", "V128", "___", 0,  \hfd, \h79, "I32X4Add", "i32x4.add", ""),
    WABT_OPCODE("V128", "V128", "V128", "___", 0,  \hfd, \h7c, "I32X4Sub", "i32x4.sub", ""),
    WABT_OPCODE("V128", "V128", "V128", "___", 0,  \hfd, \h7f, "I32X4Mul", "i32x4.mul", ""),
    WABT_OPCODE("V128", "V128", "___", "___", 0,  \hfd, \h84, "I64X2Neg", "i64x2.neg", ""),
    WABT_OPCODE("I32", "V128", "___", "___", 0,  \hfd, \h85, "I64X2AnyTrue", "i64x2.any_true", ""),
    WABT_OPCODE("I32", "V128", "___", "___", 0,  \hfd, \h86, "I64X2AllTrue", "i64x2.all_true", ""),
    WABT_OPCODE("V128", "V128", "I32", "___", 0,  \hfd, \h87, "I64X2Shl", "i64x2.shl", ""),
    WABT_OPCODE("V128", "V128", "I32", "___", 0,  \hfd, \h88, "I64X2ShrS", "i64x2.shr_s", ""),
    WABT_OPCODE("V128", "V128", "I32", "___", 0,  \hfd, \h89, "I64X2ShrU", "i64x2.shr_u", ""),
    WABT_OPCODE("V128", "V128", "V128", "___", 0,  \hfd, \h8a, "I64X2Add", "i64x2.add", ""),
    WABT_OPCODE("V128", "V128", "V128", "___", 0,  \hfd, \h8d, "I64X2Sub", "i64x2.sub", ""),
    WABT_OPCODE("V128", "V128", "___", "___", 0,  \hfd, \h95, "F32X4Abs", "f32x4.abs", ""),
    WABT_OPCODE("V128", "V128", "___", "___", 0,  \hfd, \h96, "F32X4Neg", "f32x4.neg", ""),
    WABT_OPCODE("V128", "V128", "___", "___", 0,  \hfd, \h97, "F32X4Sqrt", "f32x4.sqrt", ""),
    WABT_OPCODE("V128", "V128", "V128", "___", 0,  \hfd, \h9a, "F32X4Add", "f32x4.add", ""),
    WABT_OPCODE("V128", "V128", "V128", "___", 0,  \hfd, \h9b, "F32X4Sub", "f32x4.sub", ""),
    WABT_OPCODE("V128", "V128", "V128", "___", 0,  \hfd, \h9c, "F32X4Mul", "f32x4.mul", ""),
    WABT_OPCODE("V128", "V128", "V128", "___", 0,  \hfd, \h9d, "F32X4Div", "f32x4.div", ""),
    WABT_OPCODE("V128", "V128", "V128", "___", 0,  \hfd, \h9e, "F32X4Min", "f32x4.min", ""),
    WABT_OPCODE("V128", "V128", "V128", "___", 0,  \hfd, \h9f, "F32X4Max", "f32x4.max", ""),
    WABT_OPCODE("V128", "V128", "___", "___", 0,  \hfd, \ha0, "F64X2Abs", "f64x2.abs", ""),
    WABT_OPCODE("V128", "V128", "___", "___", 0,  \hfd, \ha1, "F64X2Neg", "f64x2.neg", ""),
    WABT_OPCODE("V128", "V128", "___", "___", 0,  \hfd, \ha2, "F64X2Sqrt", "f64x2.sqrt", ""),
    WABT_OPCODE("V128", "V128", "V128", "___", 0,  \hfd, \ha5, "F64X2Add", "f64x2.add", ""),
    WABT_OPCODE("V128", "V128", "V128", "___", 0,  \hfd, \ha6, "F64X2Sub", "f64x2.sub", ""),
    WABT_OPCODE("V128", "V128", "V128", "___", 0,  \hfd, \ha7, "F64X2Mul", "f64x2.mul", ""),
    WABT_OPCODE("V128", "V128", "V128", "___", 0,  \hfd, \ha8, "F64X2Div", "f64x2.div", ""),
    WABT_OPCODE("V128", "V128", "V128", "___", 0,  \hfd, \ha9, "F64X2Min", "f64x2.min", ""),
    WABT_OPCODE("V128", "V128", "V128", "___", 0,  \hfd, \haa, "F64X2Max", "f64x2.max", ""),
    WABT_OPCODE("V128", "V128", "___", "___", 0,  \hfd, \hab, "I32X4TruncSatF32X4S", "i32x4.trunc_sat_f32x4_s", ""),
    WABT_OPCODE("V128", "V128", "___", "___", 0,  \hfd, \hac, "I32X4TruncSatF32X4U", "i32x4.trunc_sat_f32x4_u", ""),
    WABT_OPCODE("V128", "V128", "___", "___", 0,  \hfd, \had, "I64X2TruncSatF64X2S", "i64x2.trunc_sat_f64x2_s", ""),
    WABT_OPCODE("V128", "V128", "___", "___", 0,  \hfd, \hae, "I64X2TruncSatF64X2U", "i64x2.trunc_sat_f64x2_u", ""),
    WABT_OPCODE("V128", "V128", "___", "___", 0,  \hfd, \haf, "F32X4ConvertI32X4S", "f32x4.convert_i32x4_s", ""),
    WABT_OPCODE("V128", "V128", "___", "___", 0,  \hfd, \hb0, "F32X4ConvertI32X4U", "f32x4.convert_i32x4_u", ""),
    WABT_OPCODE("V128", "V128", "___", "___", 0,  \hfd, \hb1, "F64X2ConvertI64X2S", "f64x2.convert_i64x2_s", ""),
    WABT_OPCODE("V128", "V128", "___", "___", 0,  \hfd, \hb2, "F64X2ConvertI64X2U", "f64x2.convert_i64x2_u", ""),
    WABT_OPCODE("V128", "V128", "V128", "___", 0,  \hfd, \hc0, "V8X16Swizzle", "v8x16.swizzle", ""),
    WABT_OPCODE("V128", "V128", "V128", "___", 0,  \hfd, \hc1, "V8X16Shuffle", "v8x16.shuffle", ""),
    WABT_OPCODE("V128", "I32", "___", "___", 1,  \hfd, \hc2, "I8X16LoadSplat", "i8x16.load_splat", ""),
    WABT_OPCODE("V128", "I32", "___", "___", 2,  \hfd, \hc3, "I16X8LoadSplat", "i16x8.load_splat", ""),
    WABT_OPCODE("V128", "I32", "___", "___", 4,  \hfd, \hc4, "I32X4LoadSplat", "i32x4.load_splat", ""),
    WABT_OPCODE("V128", "I32", "___", "___", 8,  \hfd, \hc5, "I64X2LoadSplat", "i64x2.load_splat", "")
  >>

\* Thread opcodes (--enable-threads): part_000 lines 555-620.
ThreadOpcodes ==
  <<
    WABT_OPCODE("I32", "I32", "I32", "___", 4,  \hfe, \h00, "AtomicNotify", "atomic.notify", ""),
    WABT_OPCODE("I32", "I32", "I32", "I64", 4,  \hfe, \h01, "I32AtomicWait", "i32.atomic.wait", ""),
    WABT_OPCODE("I32", "I32", "I64", "I64", 8,  \hfe, \h02, "I64AtomicWait", "i64.atomic.wait", ""),
    WABT_OPCODE("I32", "I32", "___", "___", 4,  \hfe, \h10, "I32AtomicLoad", "i32.atomic.load", ""),
    WABT_OPCODE("I64", "I32", "___", "___", 8,  \hfe, \h11, "I64AtomicLoad", "i64.atomic.load", ""),
    WABT_OPCODE("I32", "I32", "___", "___", 1,  \hfe, \h12, "I32AtomicLoad8U", "i32.atomic.load8_u", ""),
    WABT_OPCODE("I32", "I32", "___", "___", 2,  \hfe, \h13, "I32AtomicLoad16U", "i32.atomic.load16_u", ""),
    WABT_OPCODE("I64", "I32", "___", "___", 1,  \hfe, \h14, "I64AtomicLoad8U", "i64.atomic.load8_u", ""),
    WABT_OPCODE("I64", "I32", "___", "___", 2,  \hfe, \h15, "I64AtomicLoad16U", "i64.atomic.load16_u", ""),
    WABT_OPCODE("I64", "I32", "___", "___", 4,  \hfe, \h16, "I64AtomicLoad32U", "i64.atomic.load32_u", ""),
    WABT_OPCODE("___", "I32", "I32", "___", 4,  \hfe, \h17, "I32AtomicStore", "i32.atomic.store", ""),
    WABT_OPCODE("___", "I32", "I64", "___", 8,  \hfe, \h18, "I64AtomicStore", "i64.atomic.store", ""),
    WABT_OPCODE("___", "I32", "I32", "___", 1,  \hfe, \h19, "I32AtomicStore8", "i32.atomic.store8", ""),
    WABT_OPCODE("___", "I32", "I32", "___", 2,  \hfe, \h1a, "I32AtomicStore16", "i32.atomic.store16", ""),
    WABT_OPCODE("___", "I32", "I64", "___", 1,  \hfe, \h1b, "I64AtomicStore8", "i64.atomic.store8", ""),
    WABT_OPCODE("___", "I32", "I64", "___", 2,  \hfe, \h1c, "I64AtomicStore16", "i64.atomic.store16", ""),
    WABT_OPCODE("___", "I32", "I64", "___", 4,  \hfe, \h1d, "I64AtomicStore32", "i64.atomic.store32", ""),
    WABT_OPCODE("I32", "I32", "I32", "___", 4,  \hfe, \h1e, "I32AtomicRmwAdd", "i32.atomic.rmw.add", ""),
    WABT_OPCODE("I64", "I32", "I64", "___", 8,  \hfe, \h1f, "I64AtomicRmwAdd", "i64.atomic.rmw.add", ""),
    WABT_OPCODE("I32", "I32", "I32", "___", 1,  \hfe, \h20, "I32AtomicRmw8AddU", "i32.atomic.rmw8.add_u", ""),
    WABT_OPCODE("I32", "I32", "I32", "___", 2,  \hfe, \h21, "I32AtomicRmw16AddU", "i32.atomic.rmw16.add_u", ""),
    WABT_OPCODE("I64", "I32", "I64", "___", 1,  \hfe, \h22, "I64AtomicRmw8AddU", "i64.atomic.rmw8.add_u", ""),
    WABT_OPCODE("I64", "I32", "I64", "___", 2,  \hfe, \h23, "I64AtomicRmw16AddU", "i64.atomic.rmw16.add_u", ""),
    WABT_OPCODE("I64", "I32", "I64", "___", 4,  \hfe, \h24, "I64AtomicRmw32AddU", "i64.atomic.rmw32.add_u", ""),
    WABT_OPCODE("I32", "I32", "I32", "___", 4,  \hfe, \h25, "I32AtomicRmwSub", "i32.atomic.rmw.sub", ""),
    WABT_OPCODE("I64", "I32", "I64", "___", 8,  \hfe, \h26, "I64AtomicRmwSub", "i64.atomic.rmw.sub", ""),
    WABT_OPCODE("I32", "I32", "I32", "___", 1,  \hfe, \h27, "I32AtomicRmw8SubU", "i32.atomic.rmw8.sub_u", ""),
    WABT_OPCODE("I32", "I32", "I32", "___", 2,  \hfe, \h28, "I32AtomicRmw16SubU", "i32.atomic.rmw16.sub_u", ""),
    WABT_OPCODE("I64", "I32", "I64", "___", 1,  \hfe, \h29, "I64AtomicRmw8SubU", "i64.atomic.rmw8.sub_u", ""),
    WABT_OPCODE("I64", "I32", "I64", "___", 2,  \hfe, \h2a, "I64AtomicRmw16SubU", "i64.atomic.rmw16.sub_u", ""),
    WABT_OPCODE("I64", "I32", "I64", "___", 4,  \hfe, \h2b, "I64AtomicRmw32SubU", "i64.atomic.rmw32.sub_u", ""),
    WABT_OPCODE("I32", "I32", "I32", "___", 4,  \hfe, \h2c, "I32AtomicRmwAnd", "i32.atomic.rmw.and", ""),
    WABT_OPCODE("I64", "I32", "I64", "___", 8,  \hfe, \h2d, "I64AtomicRmwAnd", "i64.atomic.rmw.and", ""),
    WABT_OPCODE("I32", "I32", "I32", "___", 1,  \hfe, \h2e, "I32AtomicRmw8AndU", "i32.atomic.rmw8.and_u", ""),
    WABT_OPCODE("I32", "I32", "I32", "___", 2,  \hfe, \h2f, "I32AtomicRmw16AndU", "i32.atomic.rmw16.and_u", ""),
    WABT_OPCODE("I64", "I32", "I64", "___", 1,  \hfe, \h30, "I64AtomicRmw8AndU", "i64.atomic.rmw8.and_u", ""),
    WABT_OPCODE("I64", "I32", "I64", "___", 2,  \hfe, \h31, "I64AtomicRmw16AndU", "i64.atomic.rmw16.and_u", ""),
    WABT_OPCODE("I64", "I32", "I64", "___", 4,  \hfe, \h32, "I64AtomicRmw32AndU", "i64.atomic.rmw32.and_u", ""),
    WABT_OPCODE("I32", "I32", "I32", "___", 4,  \hfe, \h33, "I32AtomicRmwOr", "i32.atomic.rmw.or", ""),
    WABT_OPCODE("I64", "I32", "I64", "___", 8,  \hfe, \h34, "I64AtomicRmwOr", "i64.atomic.rmw.or", ""),
    WABT_OPCODE("I32", "I32", "I32", "___", 1,  \hfe, \h35, "I32AtomicRmw8OrU", "i32.atomic.rmw8.or_u", ""),
    WABT_OPCODE("I32", "I32", "I32", "___", 2,  \hfe, \h36, "I32AtomicRmw16OrU", "i32.atomic.rmw16.or_u", ""),
    WABT_OPCODE("I64", "I32", "I64", "___", 1,  \hfe, \h37, "I64AtomicRmw8OrU", "i64.atomic.rmw8.or_u", ""),
    WABT_OPCODE("I64", "I32", "I64", "___", 2,  \hfe, \h38, "I64AtomicRmw16OrU", "i64.atomic.rmw16.or_u", ""),
    WABT_OPCODE("I64", "I32", "I64", "___", 4,  \hfe, \h39, "I64AtomicRmw32OrU", "i64.atomic.rmw32.or_u", ""),
    WABT_OPCODE("I32", "I32", "I32", "___", 4,  \hfe, \h3a, "I32AtomicRmwXor", "i32.atomic.rmw.xor", ""),
    WABT_OPCODE("I64", "I32", "I64", "___", 8,  \hfe, \h3b, "I64AtomicRmwXor", "i64.atomic.rmw.xor", ""),
    WABT_OPCODE("I32", "I32", "I32", "___", 1,  \hfe, \h3c, "I32AtomicRmw8XorU", "i32.atomic.rmw8.xor_u", ""),
    WABT_OPCODE("I32", "I32", "I32", "___", 2,  \hfe, \h3d, "I32AtomicRmw16XorU", "i32.atomic.rmw16.xor_u", ""),
    WABT_OPCODE("I64", "I32", "I64", "___", 1,  \hfe, \h3e, "I64AtomicRmw8XorU", "i64.atomic.rmw8.xor_u", ""),
    WABT_OPCODE("I64", "I32", "I64", "___", 2,  \hfe, \h3f, "I64AtomicRmw16XorU", "i64.atomic.rmw16.xor_u", ""),
    WABT_OPCODE("I64", "I32", "I64", "___", 4,  \hfe, \h40, "I64AtomicRmw32XorU", "i64.atomic.rmw32.xor_u", ""),
    WABT_OPCODE("I32", "I32", "I32", "___", 4,  \hfe, \h41, "I32AtomicRmwXchg", "i32.atomic.rmw.xchg", ""),
    WABT_OPCODE("I64", "I32", "I64", "___", 8,  \hfe, \h42, "I64AtomicRmwXchg", "i64.atomic.rmw.xchg", ""),
    WABT_OPCODE("I32", "I32", "I32", "___", 1,  \hfe, \h43, "I32AtomicRmw8XchgU", "i32.atomic.rmw8.xchg_u", ""),
    WABT_OPCODE("I32", "I32", "I32", "___", 2,  \hfe, \h44, "I32AtomicRmw16XchgU", "i32.atomic.rmw16.xchg_u", ""),
    WABT_OPCODE("I64", "I32", "I64", "___", 1,  \hfe, \h45, "I64AtomicRmw8XchgU", "i64.atomic.rmw8.xchg_u", ""),
    WABT_OPCODE("I64", "I32", "I64", "___", 2,  \hfe, \h46, "I64AtomicRmw16XchgU", "i64.atomic.rmw16.xchg_u", ""),
    WABT_OPCODE("I64", "I32", "I64", "___", 4,  \hfe, \h47, "I64AtomicRmw32XchgU", "i64.atomic.rmw32.xchg_u", ""),
    WABT_OPCODE("I32", "I32", "I32", "I32", 4,  \hfe, \h48, "I32AtomicRmwCmpxchg", "i32.atomic.rmw.cmpxchg", ""),
    WABT_OPCODE("I64", "I32", "I64", "I64", 8,  \hfe, \h49, "I64AtomicRmwCmpxchg", "i64.atomic.rmw.cmpxchg", ""),
    WABT_OPCODE("I32", "I32", "I32", "I32", 1,  \hfe, \h4a, "I32AtomicRmw8CmpxchgU", "i32.atomic.rmw8.cmpxchg_u", ""),
    WABT_OPCODE("I32", "I32", "I32", "I32", 2,  \hfe, \h4b, "I32AtomicRmw16CmpxchgU", "i32.atomic.rmw16.cmpxchg_u", ""),
    WABT_OPCODE("I64", "I32", "I64", "I64", 1,  \hfe, \h4c, "I64AtomicRmw8CmpxchgU", "i64.atomic.rmw8.cmpxchg_u", ""),
    WABT_OPCODE("I64", "I32", "I64", "I64", 2,  \hfe, \h4d, "I64AtomicRmw16CmpxchgU", "i64.atomic.rmw16.cmpxchg_u", ""),
    WABT_OPCODE("I64", "I32", "I64", "I64", 4,  \hfe, \h4e, "I64AtomicRmw32CmpxchgU", "i64.atomic.rmw32.cmpxchg_u", "")
  >>
\* The catalogue with table.get's code mistyped as global.set's 0x24.
OpcodeTable_DuplicateCode ==
  BaseOpcodes \o SignExtensionOpcodes \o InterpOpcodes \o SaturatingOpcodes
  \o BulkMemoryOpcodes
  \o [ReferenceTypesOpcodes EXCEPT ![1].code = \h24]
  \o SimdOpcodes \o ThreadOpcodes

\* The catalogue with table.set's row carrying table.get's mnemonic.
OpcodeTable_DuplicateText ==
  BaseOpcodes \o SignExtensionOpcodes \o InterpOpcodes \o SaturatingOpcodes
  \o BulkMemoryOpcodes
  \o [ReferenceTypesOpcodes EXCEPT ![2].text = "table.get"]
  \o SimdOpcodes \o ThreadOpcodes

\* The catalogue with the codes of table.grow and table.size exchanged.
OpcodeTable_SwappedGrowSize ==
  BaseOpcodes \o SignExtensionOpcodes \o InterpOpcodes \o SaturatingOpcodes
  \o BulkMemoryOpcodes
  \o [ReferenceTypesOpcodes EXCEPT ![3].code = \h10, ![4].code = \h0f]
  \o SimdOpcodes \o ThreadOpcodes

\* The catalogue with i64x2.neg's code 0x84 mistyped as 0x48.
OpcodeTable_I64X2NegLowCode ==
  BaseOpcodes \o SignExtensionOpcodes \o InterpOpcodes \o SaturatingOpcodes
  \o BulkMemoryOpcodes \o ReferenceTypesOpcodes
  \o [SimdOpcodes EXCEPT ![106].code = \h48]
  \o ThreadOpcodes

\* The catalogue with the interpreter's drop_keep at code 0xfc, the byte of
\* a prefix.
OpcodeTable_UnprefixedFC ==
  BaseOpcodes \o SignExtensionOpcodes
  \o [InterpOpcodes EXCEPT ![5].code = \hfc]
  \o SaturatingOpcodes \o BulkMemoryOpcodes \o ReferenceTypesOpcodes
  \o SimdOpcodes \o ThreadOpcodes

\* The whole table in its declared order: part_000 lines 185-620.
OpcodeTable ==
  BaseOpcodes \o SignExtensionOpcodes \o InterpOpcodes \o SaturatingOpcodes
  \o BulkMemoryOpcodes \o ReferenceTypesOpcodes \o SimdOpcodes
  \o ThreadOpcodes

\* Opcode::Enum: an opcode is its row's position; Invalid follows the rows.
NumOpcodes == Len(OpcodeTable)
Invalid == NumOpcodes + 1
Opcodes == 1..NumOpcodes

\* The search key of FromCode: (prefix, code) in lexicographic order.
PrefixCode(prefix, code) == prefix * 256 + code

\* std::lower_bound over rows first .. first+len-1.
RECURSIVE LowerBound(_, _, _)
LowerBound(first, len, key) ==
  IF len = 0 THEN first
  ELSE LET half   == len \div 2
           middle == first + half
           info   == OpcodeTable[middle]
       IN  IF PrefixCode(info.prefix, info.code) < key
           THEN LowerBound(middle + 1, len - half - 1, key)
           ELSE LowerBound(first, half, key)

\* FromCode(prefix, code): binary search, Invalid for an unknown encoding.
FromCode(prefix, code) ==
  LET key  == PrefixCode(prefix, code)
      iter == LowerBound(1, NumOpcodes, key)
  IN  IF iter = NumOpcodes + 1 THEN Invalid
      ELSE IF PrefixCode(OpcodeTable[iter].prefix, OpcodeTable[iter].code) # key
           THEN Invalid
           ELSE iter

\* FromName(text): case-sensitive exact match, Invalid for an unknown mnemonic.
FromName(text) ==
  LET hits == {i \in Opcodes : OpcodeTable[i].text = text}
  IN  IF hits = {} THEN Invalid
      ELSE CHOOSE i \in hits : \A j \in hits : i <= j

\* Unsigned LEB128 of a 32-bit value, least significant group first.
RECURSIVE WriteU32Leb128(_)
WriteU32Leb128(value) ==
  IF value < 128 THEN <<value>>
  ELSE <<(value % 128) + 128>> \o WriteU32Leb128(value \div 128)

\* The value a well-formed unsigned LEB128 byte string decodes to.
RECURSIVE ReadU32Leb128(_)
ReadU32Leb128(bytes) ==
  IF bytes = <<>> THEN 0
  ELSE (bytes[1] % 128) + 128 * ReadU32Leb128(Tail(bytes))

\* BinaryEncoding(op): [code], or prefix then ULEB128(code).
BinaryEncoding(info) ==
  IF info.prefix # 0
  THEN <<info.prefix>> \o WriteU32Leb128(info.code)
  ELSE <<info.code>>

\* Signature(op): the result type and the three operand slots.
Signature(info) == [tr |-> info.tr, operands |-> <<info.t1, info.t2, info.t3>>]

\* The number of operand slots that hold a type.
NumOperands(operands) ==
  Cardinality({k \in DOMAIN operands : operands[k] # "___"})

\* Opcode bytes the reference-types test expects in the disassembly.
TestDisassembly ==
  { [text |-> "i32.const",   bytes |-> <<\h41>>],
    [text |-> "table.get",   bytes |-> <<\h25>>],
    [text |-> "end",         bytes |-> <<\h0b>>],
    [text |-> "local.get",   bytes |-> <<\h20>>],
    [text |-> "table.set",   bytes |-> <<\h26>>],
    [text |-> "ref.null",    bytes |-> <<\hd0>>],
    [text |-> "table.grow",  bytes |-> <<\hfc, \h0f>>],
    [text |-> "ref.is_null", bytes |-> <<\hd1>>],
    [text |-> "table.size",  bytes |-> <<\hfc, \h10>>] }

\* Instructions that produce a value although their type depends on the
\* context: the reference-types test returns the value of table.get,
\* table.grow, ref.is_null and table.size from its functions.
ValueProducers ==
  {"LocalGet", "GlobalGet", "TableGet", "TableSize", "TableGrow",
   "RefNull", "RefIsNull", "RefFunc", "Select"}

\* Whether the instruction of a row produces a value: it has a typed
\* result, or it is one of the context-typed value producers.
ProducesValue(info) == info.tr # "___" \/ info.Name \in ValueProducers

\* Floating-point operators that take one operand.
UnaryOperators ==
  {"F32Abs", "F32Neg", "F32Ceil", "F32Floor", "F32Trunc", "F32Nearest",
   "F32Sqrt", "F64Abs", "F64Neg", "F64Ceil", "F64Floor", "F64Trunc",
   "F64Nearest", "F64Sqrt"}

\* Floating-point operators that take two operands.
BinaryOperators ==
  {"F32Add", "F32Sub", "F32Mul", "F32Div", "F32Min", "F32Max", "F32Copysign",
   "F64Add", "F64Sub", "F64Mul", "F64Div", "F64Min", "F64Max", "F64Copysign"}

\* Encodings and mnemonics of no row, used to probe the lookups.
UnknownCodes == {<<0, \h14>>, <<0, \hff>>, <<\hfc, \h11>>, <<\hfd, \h03>>,
                 <<\hfe, \h4f>>, <<\hff, 0>>}
UnknownTexts == {"I32.ADD", "i32.Add", "Table.get", "i32.add ", "i32"}

NoResult == [opcode |-> 0, bytes |-> <<>>, tr |-> "", operands |-> <<>>]
NoQuery == [kind |-> "none", cur |-> 0, prefix |-> 0, code |-> 0, text |-> ""]

\* The table is static; no query is outstanding.
OpInit ==
  /\ op_query = NoQuery
  /\ op_result = NoResult

\* A caller looks an encoding up: that of row i, or an unknown one.
OpFromCode ==
  /\ op_query = NoQuery
  /\ \E q \in {<<i, OpcodeTable[i].prefix, OpcodeTable[i].code>> : i \in Opcodes}
              \cup {<<0, u[1], u[2]>> : u \in UnknownCodes} :
       /\ op_query' = [kind |-> "FromCode", cur |-> q[1], prefix |-> q[2],
                       code |-> q[3], text |-> ""]
       /\ op_result' = [NoResult EXCEPT !.opcode = FromCode(q[2], q[3])]
  /\ UNCHANGED <<varVars, ltVars, modVars, scriptVars, funcVars>>

\* A caller looks a mnemonic up: that of row i, or an unknown one.
OpFromName ==
  /\ op_query = NoQuery
  /\ \E q \in {<<i, OpcodeTable[i].text>> : i \in Opcodes}
              \cup {<<0, t>> : t \in UnknownTexts} :
       /\ op_query' = [kind |-> "FromName", cur |-> q[1], prefix |-> 0,
                       code |-> 0, text |-> q[2]]
       /\ op_result' = [NoResult EXCEPT !.opcode = FromName(q[2])]
  /\ UNCHANGED <<varVars, ltVars, modVars, scriptVars, funcVars>>

\* A caller asks for the bytes of opcode i.
OpBinaryEncoding ==
  /\ op_query = NoQuery
  /\ \E i \in Opcodes :
       /\ op_query' = [kind |-> "BinaryEncoding", cur |-> i,
                       prefix |-> OpcodeTable[i].prefix,
                       code |-> OpcodeTable[i].code,
                       text |-> OpcodeTable[i].text]
       /\ op_result' = [NoResult EXCEPT !.opcode = i,
                                        !.bytes = BinaryEncoding(OpcodeTable[i])]
  /\ UNCHANGED <<varVars, ltVars, modVars, scriptVars, funcVars>>

\* A caller asks for the signature of opcode i.
OpSignature ==
  /\ op_query = NoQuery
  /\ \E i \in Opcodes :
       /\ op_query' = [kind |-> "Signature", cur |-> i,
                       prefix |-> OpcodeTable[i].prefix,
                       code |-> OpcodeTable[i].code,
                       text |-> OpcodeTable[i].text]
       /\ op_result' = [NoResult EXCEPT !.opcode = i,
                                        !.tr = Signature(OpcodeTable[i]).tr,
                                        !.operands = Signature(OpcodeTable[i]).operands]
  /\ UNCHANGED <<varVars, ltVars, modVars, scriptVars, funcVars>>

\* The caller has consumed the answer.
OpReturn ==
  /\ op_query # NoQuery
  /\ op_query' = NoQuery
  /\ op_result' = NoResult
  /\ UNCHANGED <<varVars, ltVars, modVars, scriptVars, funcVars>>

OpNext ==
  OpFromCode \/ OpFromName \/ OpBinaryEncoding \/ OpSignature \/ OpReturn

(***************************************************************************)
(* Var                                                                     *)
(***************************************************************************)

\* Index is an unsigned 32-bit integer; the model keeps its wrap-around at a
\* width of IndexBits bits.
IndexBits == 8
IndexModulus == 2 ^ IndexBits

\* kInvalidIndex, the all-ones Index: the default of Var's constructor.
kInvalidIndex == IndexModulus - 1

\* Largest index and the names the callers pass.
MaxIndex == 1
VarIndices == (0..MaxIndex) \cup {kInvalidIndex}
VarNames == {"$a", "$b"}

\* The union member that is not the active one holds no object.
NoIndex == -1
NoName == "<no string>"

TheVar == [type_ |-> var_type, index_ |-> var_index_, name_ |-> var_name_]

\* is_index that takes every Var for an index.
is_index_Always(v) == TRUE

is_index(v) == v.type_ = "Index"
is_name(v) == v.type_ = "Name"

NoCall == [call |-> "none", status |-> "none", index |-> NoIndex,
           name |-> NoName]

\* index() without its assertion: index_ is returned whatever the form is.
index_Unchecked(v) ==
  [call |-> "index", status |-> "value", index |-> v.index_, name |-> NoName]

\* Index index() const { assert(is_index()); return index_; }
index(v) ==
  IF is_index(v)
  THEN [call |-> "index", status |-> "value", index |-> v.index_,
        name |-> NoName]
  ELSE [call |-> "index", status |-> "assert", index |-> NoIndex,
        name |-> NoName]

\* const std::string& name() const { assert(is_name()); return name_; }
name(v) ==
  IF is_name(v)
  THEN [call |-> "name", status |-> "value", index |-> NoIndex,
        name |-> v.name_]
  ELSE [call |-> "name", status |-> "assert", index |-> NoIndex,
        name |-> NoName]

NoOp == [op |-> "none", index |-> NoIndex, name |-> NoName]

\* Var(): an Index var holding kInvalidIndex.
VarInit ==
  /\ var_type = "Index"
  /\ var_index_ = kInvalidIndex
  /\ var_name_ = NoName
  /\ var_prev = NoOp
  /\ var_last = [op |-> "Var(index)", index |-> kInvalidIndex, name |-> NoName]
  /\ var_ret = NoCall

\* explicit Var(Index index, loc)
VarFromIndex(i) ==
  /\ var_type' = "Index"
  /\ var_index_' = i
  /\ var_name_' = NoName
  /\ var_prev' = NoOp
  /\ var_last' = [op |-> "Var(index)", index |-> i, name |-> NoName]
  /\ var_ret' = NoCall
  /\ UNCHANGED <<opVars, ltVars, modVars, scriptVars, funcVars>>

\* explicit Var(string_view name, loc)
VarFromName(s) ==
  /\ var_type' = "Name"
  /\ var_index_' = NoIndex
  /\ var_name_' = s
  /\ var_prev' = NoOp
  /\ var_last' = [op |-> "Var(name)", index |-> NoIndex, name |-> s]
  /\ var_ret' = NoCall
  /\ UNCHANGED <<opVars, ltVars, modVars, scriptVars, funcVars>>

\* void set_index(Index): destroy the name, if any, and hold the index.
set_index(i) ==
  /\ var_type' = "Index"
  /\ var_index_' = i
  /\ var_name_' = NoName
  /\ var_prev' = var_last
  /\ var_last' = [op |-> "set_index", index |-> i, name |-> NoName]
  /\ var_ret' = NoCall
  /\ UNCHANGED <<opVars, ltVars, modVars, scriptVars, funcVars>>

\* void set_name(string_view): destroy the name, if any, and hold the new one.
set_name(s) ==
  /\ var_type' = "Name"
  /\ var_index_' = NoIndex
  /\ var_name_' = s
  /\ var_prev' = var_last
  /\ var_last' = [op |-> "set_name", index |-> NoIndex, name |-> s]
  /\ var_ret' = NoCall
  /\ UNCHANGED <<opVars, ltVars, modVars, scriptVars, funcVars>>

\* A caller reads index().
VarCallIndex ==
  /\ var_ret' = index(TheVar)
  /\ UNCHANGED <<var_type, var_index_, var_name_, var_prev, var_last>>
  /\ UNCHANGED <<opVars, ltVars, modVars, scriptVars, funcVars>>

\* A caller reads name().
VarCallName ==
  /\ var_ret' = name(TheVar)
  /\ UNCHANGED <<var_type, var_index_, var_name_, var_prev, var_last>>
  /\ UNCHANGED <<opVars, ltVars, modVars, scriptVars, funcVars>>

VarNext ==
  \/ \E i \in VarIndices : VarFromIndex(i)
  \/ \E s \in VarNames : VarFromName(s)
  \/ \E i \in VarIndices : set_index(i)
  \/ \E s \in VarNames : set_name(s)
  \/ VarCallIndex
  \/ VarCallName

(***************************************************************************)
(* LocalTypes                                                              *)
(***************************************************************************)

\* Bounds of the LocalTypes exploration.
MaxTypeVectorLen == 4
MaxDecls == 3
MaxCount == 2

LocalTypeSet == {"I32", "F64"}
TypeVectors ==
  UNION {[1..n -> LocalTypeSet] : n \in 0..MaxTypeVectorLen}

\* The loop of Set from position i on, with the run (type, count) open.
RECURSIVE SetRuns(_, _, _, _)
SetRuns(types, i, type, count) ==
  IF i > Len(types) THEN <<[first |-> type, second |-> count]>>
  ELSE IF types[i] # type
       THEN <<[first |-> type, second |-> count]>>
            \o SetRuns(types, i + 1, types[i], 1)
       ELSE SetRuns(types, i + 1, type, count + 1)

\* void Set(const TypeVector&): the declarations that replace decls_.
Set(types) ==
  IF types = <<>> THEN <<>> ELSE SetRuns(types, 2, types[1], 1)

\* AppendDecl storing the declaration whatever its count.
AppendDecl_KeepZero(decls, type, count) ==
  Append(decls, [first |-> type, second |-> count])

\* AppendDecl merging into the last declaration when the types agree.
AppendDecl_Coalesce(decls, type, count) ==
  IF count = 0 THEN decls
  ELSE IF decls # <<>> /\ decls[Len(decls)].first = type
       THEN [decls EXCEPT ![Len(decls)].second = @ + count]
       ELSE Append(decls, [first |-> type, second |-> count])

\* void AppendDecl(Type type, Index count)
AppendDecl(decls, type, count) ==
  IF count # 0
  THEN Append(decls, [first |-> type, second |-> count])
  ELSE decls

\* Index size() const: the sum of the counts.
RECURSIVE size(_)
size(decls) ==
  IF decls = <<>> THEN 0
  ELSE (decls[1].second + size(Tail(decls))) % IndexModulus

\* The outcome of operator[]: a type, or no type where the scan fails.
NoType == "<no type>"

\* The scan of operator[] from declaration d on, count elements behind it.
RECURSIVE SubscriptFrom(_, _, _, _)
SubscriptFrom(decls, d, i, count) ==
  IF d > Len(decls) THEN [status |-> "fail", type |-> NoType]
  ELSE IF i < (count + decls[d].second) % IndexModulus
       THEN [status |-> "value", type |-> decls[d].first]
       ELSE SubscriptFrom(decls, d + 1, i,
                          (count + decls[d].second) % IndexModulus)

\* Type operator[](Index) const: a linear scan of the declarations.
operator_subscript(decls, i) == SubscriptFrom(decls, 1, i, 0)

\* const_iterator begin() / end(): a position in decls_ and an index in it.
begin(decls) == [decl |-> 1, index |-> 0]
end(decls) == [decl |-> Len(decls) + 1, index |-> 0]

\* operator++ stepping to the next declaration one element late.
Increment_OffByOne(decls, it) ==
  IF it.index + 1 > decls[it.decl].second
  THEN [decl |-> it.decl + 1, index |-> 0]
  ELSE [decl |-> it.decl, index |-> it.index + 1]

\* const_iterator::operator++()
Increment(decls, it) ==
  IF it.index + 1 >= decls[it.decl].second
  THEN [decl |-> it.decl + 1, index |-> 0]
  ELSE [decl |-> it.decl, index |-> it.index + 1]

\* operator* reading the last declaration instead of the one pointed at.
Deref_Last(decls, it) == decls[Len(decls)].first

\* Type operator*() const
Deref(decls, it) == decls[it.decl].first

\* operator==(const_iterator, const_iterator)
IterEq(lhs, rhs) == lhs.decl = rhs.decl /\ lhs.index = rhs.index

\* for (it = begin(); it != end(); ++it) collect *it, from position it on.
RECURSIVE IterateFrom(_, _)
IterateFrom(decls, it) ==
  IF IterEq(it, end(decls)) THEN <<>>
  ELSE <<Deref(decls, it)>> \o IterateFrom(decls, Increment(decls, it))

Iterate(decls) == IterateFrom(decls, begin(decls))

NoIter == [decl |-> 0, index |-> 0]
NoSet == [valid |-> FALSE, v |-> <<>>, prior |-> 0]
NoLTCall ==
  [op |-> "none", type |-> "I32", count |-> 0, before |-> <<>>, set |-> NoSet]

\* A default-constructed LocalTypes.
LTInit ==
  /\ lt_decls = <<>>
  /\ lt_set = NoSet
  /\ lt_it = NoIter
  /\ lt_out = <<>>
  /\ lt_last = NoLTCall

\* local_types.Set(v); iterators into the old vector die.
LTSet(v) ==
  /\ lt_decls' = Set(v)
  /\ lt_set' = [valid |-> TRUE, v |-> v, prior |-> Len(lt_decls)]
  /\ lt_it' = NoIter
  /\ lt_out' = <<>>
  /\ lt_last' = [NoLTCall EXCEPT !.op = "Set"]
  /\ UNCHANGED <<opVars, varVars, modVars, scriptVars, funcVars>>

\* local_types.AppendDecl(t, c); iterators die when the vector grows, and a
\* zero count leaves the vector alone.
LTAppendDecl(t, c) ==
  /\ Len(lt_decls) < MaxDecls
  /\ lt_decls' = AppendDecl(lt_decls, t, c)
  /\ IF c # 0
     THEN lt_set' = NoSet /\ lt_it' = NoIter /\ lt_out' = <<>>
     ELSE UNCHANGED <<lt_set, lt_it, lt_out>>
  /\ lt_last' = [op |-> "AppendDecl", type |-> t, count |-> c,
                 before |-> lt_decls, set |-> lt_set]
  /\ UNCHANGED <<opVars, varVars, modVars, scriptVars, funcVars>>

\* it = local_types.begin()
LTBegin ==
  /\ lt_it' = begin(lt_decls)
  /\ lt_out' = <<>>
  /\ UNCHANGED <<lt_decls, lt_set, lt_last, opVars, varVars, modVars,
                 scriptVars, funcVars>>

\* One turn of the loop: read *it, then ++it.
LTStep ==
  /\ lt_it # NoIter
  /\ ~IterEq(lt_it, end(lt_decls))
  /\ lt_out' = Append(lt_out, Deref(lt_decls, lt_it))
  /\ lt_it' = Increment(lt_decls, lt_it)
  /\ UNCHANGED <<lt_decls, lt_set, lt_last, opVars, varVars, modVars,
                 scriptVars, funcVars>>

LTNext ==
  \/ \E v \in TypeVectors : LTSet(v)
  \/ \E t \in LocalTypeSet, c \in 0..MaxCount : LTAppendDecl(t, c)
  \/ LTBegin
  \/ LTStep

(***************************************************************************)
(* Module                                                                  *)
(***************************************************************************)

\* Bound of the Module exploration: the number of fields appended.
MaxFields == 2

\* The kinds an Import wraps (FuncImport .. EventImport).
ExternalKinds == {"Func", "Table", "Memory", "Global", "Event"}

\* The kinds that have a handle array and a binding table in Module.
BindingKinds == ExternalKinds \cup {"FuncType", "DataSegment", "ElemSegment"}

\* enum class ModuleFieldType, less Export and Start.
ModuleFieldTypes == BindingKinds \cup {"Import"}

\* Names a payload may carry; string_view() is the empty name.
ModuleNames == {"$f"}
FieldNames == ModuleNames \cup {""}
UnboundName == "$h"

\* Var values: Var(Index) and Var(string_view).
IndexVar(i) == [type_ |-> "Index", index_ |-> i, name_ |-> NoName]
NameVar(s) == [type_ |-> "Name", index_ |-> NoIndex, name_ |-> s]

\* struct FuncSignature, and its operator==.
FuncSignature(params, results) ==
  [param_types |-> params, result_types |-> results]
SigEq(lhs, rhs) ==
  /\ lhs.param_types = rhs.param_types
  /\ lhs.result_types = rhs.result_types

\* A FuncDeclaration that starts out as referring to a type.
FuncDeclaration_HasFuncType ==
  [has_func_type |-> TRUE, type_var |-> IndexVar(kInvalidIndex),
   sig |-> FuncSignature(<<>>, <<>>)]

\* struct FuncDeclaration, as constructed.
FuncDeclaration ==
  [has_func_type |-> FALSE, type_var |-> IndexVar(kInvalidIndex),
   sig |-> FuncSignature(<<>>, <<>>)]

\* What the source text at a field's loc spelled out; none for a field
\* that was not parsed from text.
NoForm == [offset |-> FALSE, index |-> FALSE, elem_exprs |-> FALSE]

\* A segment whose flags start with the passive bit set.
Payload_PassiveFlag ==
  [decl |-> FuncDeclaration, sig |-> FuncSignature(<<>>, <<>>),
   var |-> IndexVar(kInvalidIndex), flags |-> 1, offset |-> <<>>,
   elem_exprs |-> <<>>, exprs |-> <<>>, form |-> NoForm]

\* What a field owns besides its name: the declaration of a Func and the
\* instructions of its exprs that carry a Var, the signature of a FuncType,
\* and of a segment its table_var / memory_var, flags, offset and
\* elem_exprs.
Payload ==
  [decl |-> FuncDeclaration, sig |-> FuncSignature(<<>>, <<>>),
   var |-> IndexVar(kInvalidIndex), flags |-> 0, offset |-> <<>>,
   elem_exprs |-> <<>>, exprs |-> <<>>, form |-> NoForm]

\* A FuncModuleField, TableModuleField, ... (kind "None") or an
\* ImportModuleField wrapping an import of the given kind.
NoKind == "None"
ModuleField(type, kind, nm, payload) ==
  [type |-> type, kind |-> kind, name |-> nm, payload |-> payload]

\* The kind whose handle array and binding table a field goes to.
KindOf(field) == IF field.type = "Import" THEN field.kind ELSE field.type

\* A handle (Func*, Table*, ...) is the place of the field that owns the
\* entity; nullptr is no place.
nullptr == 0

\* A Binding that takes the place in the source for the index.
Binding_Place(loc, idx) == [loc |-> loc, index |-> loc]

\* Binding(loc, index); the location is the field's place in the source.
Binding(loc, idx) == [loc |-> loc, index |-> idx]

InsertAt(seq, p, x) ==
  SubSeq(seq, 1, p) \o <<x>> \o SubSeq(seq, p + 1, Len(seq))

\* The places of the entries of a BindingHash that carry the name.
EqualRange(bindings, nm) ==
  {i \in 1..Len(bindings) : bindings[i].name = nm}

\* emplace keeping the entries of a name in the order of insertion.
emplace_InsertionOrder(bindings, nm, binding) ==
  {Append(bindings, [name |-> nm, binding |-> binding])}

\* BindingHash::emplace(name, binding): a multimap keeps the entries of a
\* name together and does not fix where among them the new one goes.
emplace(bindings, nm, binding) ==
  LET range == EqualRange(bindings, nm)
      entry == [name |-> nm, binding |-> binding]
      first == CHOOSE i \in range : \A j \in range : i <= j
  IN  IF range = {} THEN {Append(bindings, entry)}
      ELSE {InsertAt(bindings, p, entry) :
              p \in (first - 1)..(first - 1 + Cardinality(range))}

\* BindingHash::FindIndex(name): find() gives the first entry of the name.
FindIndex(bindings, nm) ==
  LET range == EqualRange(bindings, nm)
  IN  IF range = {} THEN kInvalidIndex
      ELSE bindings[CHOOSE i \in range : \A j \in range : i <= j].binding.index

\* Index GetFuncIndex(const Var&), GetTableIndex, ...: GetXIndex for kind X.
GetIndex(kind, v) ==
  IF is_index(v) THEN index(v).index
  ELSE FindIndex(m_bindings[kind], name(v).name)

\* const Func* GetFunc(const Var&) const, GetTable, ...: GetX for kind X.
Get(kind, v) ==
  LET idx == GetIndex(kind, v)
  IN  IF idx >= Len(m_handles[kind]) THEN nullptr
      ELSE m_handles[kind][idx + 1]

\* Counters that start at one.
num_imports_One == [k \in ExternalKinds |-> 1]

\* Index num_event_imports = 0; ... num_global_imports = 0;
num_imports == [k \in ExternalKinds |-> 0]

\* IsImport with the bound included.
IsImport_Inclusive(kind, v) == GetIndex(kind, v) <= m_num_imports[kind]

\* bool IsImport(ExternalKind kind, const Var&) const
IsImport(kind, v) == GetIndex(kind, v) < m_num_imports[kind]

NoAppend ==
  [type |-> "none", kind |-> NoKind, name |-> "", index |-> 0,
   bound |-> FALSE]

\* A default-constructed Module.
ModInit ==
  /\ m_fields = <<>>
  /\ m_handles = [k \in BindingKinds |-> <<>>]
  /\ m_imports = <<>>
  /\ m_num_imports = num_imports
  /\ m_bindings = [k \in BindingKinds |-> <<>>]
  /\ m_last = NoAppend

\* Whether AppendField binds the name of the payload.
HasName_Always(nm) == TRUE
HasName(nm) == nm # ""

\* AppendField counting an import in the counter of every kind.
AppendField_CountAll(field) ==
  LET kind == KindOf(field)
      idx == Len(m_handles[kind])
      loc == Len(m_fields) + 1
  IN  /\ IF HasName(field.name)
         THEN \E b \in emplace(m_bindings[kind], field.name,
                               Binding(loc, idx)) :
                m_bindings' = [m_bindings EXCEPT ![kind] = b]
         ELSE UNCHANGED m_bindings
      /\ m_handles' = [m_handles EXCEPT ![kind] = Append(@, loc)]
      /\ IF field.type = "Import"
         THEN /\ m_imports' = Append(m_imports, loc)
              /\ m_num_imports' = [k \in ExternalKinds |-> m_num_imports[k] + 1]
         ELSE UNCHANGED <<m_imports, m_num_imports>>
      /\ m_fields' = Append(m_fields, field)
      /\ m_last' = [type |-> field.type, kind |-> kind, name |-> field.name,
                    index |-> idx,
                    bound |-> EqualRange(m_bindings[kind], field.name) # {}]
      /\ UNCHANGED <<opVars, varVars, ltVars, scriptVars, funcVars>>

\* void AppendField(std::unique_ptr<...ModuleField>): the binding of the
\* name to the next index of the kind, the handle, for an import the
\* imports array and the counter of its kind, and the field itself.
AppendField(field) ==
  LET kind == KindOf(field)
      idx == Len(m_handles[kind])
      loc == Len(m_fields) + 1
  IN  /\ IF HasName(field.name)
         THEN \E b \in emplace(m_bindings[kind], field.name,
                               Binding(loc, idx)) :
                m_bindings' = [m_bindings EXCEPT ![kind] = b]
         ELSE UNCHANGED m_bindings
      /\ m_handles' = [m_handles EXCEPT ![kind] = Append(@, loc)]
      /\ IF field.type = "Import"
         THEN /\ m_imports' = Append(m_imports, loc)
              /\ m_num_imports' = [m_num_imports EXCEPT ![kind] = @ + 1]
         ELSE UNCHANGED <<m_imports, m_num_imports>>
      /\ m_fields' = Append(m_fields, field)
      /\ m_last' = [type |-> field.type, kind |-> kind, name |-> field.name,
                    index |-> idx,
                    bound |-> EqualRange(m_bindings[kind], field.name) # {}]
      /\ UNCHANGED <<opVars, varVars, ltVars, scriptVars, funcVars>>

\* module.AppendField(MakeUnique<XModuleField>(loc, name))
AppendDefinition ==
  /\ Len(m_fields) < MaxFields
  /\ \E type \in BindingKinds, nm \in FieldNames :
       AppendField(ModuleField(type, NoKind, nm, Payload))

\* module.AppendField(MakeUnique<ImportModuleField>(MakeUnique<XImport>(name)))
AppendImport ==
  /\ Len(m_fields) < MaxFields
  /\ \E kind \in ExternalKinds, nm \in FieldNames :
       AppendField(ModuleField("Import", kind, nm, Payload))

ModNext ==
  \/ AppendDefinition
  \/ AppendImport

(***************************************************************************)
(* Function types of functions with inline signatures                      *)
(***************************************************************************)

\* Bound of the exploration: functions of a module, other than the module
\* of the reference-types test, which is explored whole.
MaxFuncs == 3

\* The signatures of the ten functions of the reference-types test.
TestFuncSignatures ==
  << FuncSignature(<<>>, <<"anyref">>),
     FuncSignature(<<>>, <<"anyref">>),
     FuncSignature(<<"anyref">>, <<>>),
     FuncSignature(<<"anyref">>, <<>>),
     FuncSignature(<<>>, <<"i32">>),
     FuncSignature(<<>>, <<"i32">>),
     FuncSignature(<<"anyref">>, <<"i32">>),
     FuncSignature(<<>>, <<"i32">>),
     FuncSignature(<<>>, <<"i32">>),
     FuncSignature(<<>>, <<"i32">>) >>

\* Type[4] and Function[10] of the output the test expects.
TestTypes ==
  << FuncSignature(<<>>, <<"anyref">>),
     FuncSignature(<<"anyref">>, <<>>),
     FuncSignature(<<>>, <<"i32">>),
     FuncSignature(<<"anyref">>, <<"i32">>) >>
TestFunctionSigs == <<0, 0, 1, 1, 2, 2, 3, 2, 2, 2>>

Signatures == {TestFuncSignatures[i] : i \in 1..Len(TestFuncSignatures)}

\* Index GetFuncTypeIndex(const FuncSignature&) const: the first function
\* type with an equal signature.
GetFuncTypeIndex_Sig(fields, func_types, sig) ==
  LET equal == {i \in 1..Len(func_types) :
                  SigEq(fields[func_types[i]].payload.sig, sig)}
  IN  IF equal = {} THEN kInvalidIndex
      ELSE (CHOOSE i \in equal : \A j \in equal : i <= j) - 1

\* Index GetFuncTypeIndex(const FuncDeclaration&) const
GetFuncTypeIndex_Decl(decl) ==
  IF decl.has_func_type THEN GetIndex("FuncType", decl.type_var)
  ELSE GetFuncTypeIndex_Sig(m_fields, m_handles["FuncType"], decl.sig)

\* The pass over the functions from place p of the field list on: a
\* function with an inline signature that no function type has yet gets a
\* new unnamed FuncTypeModuleField appended.
RECURSIVE ResolveFuncTypesFrom(_, _, _)
ResolveFuncTypesFrom(fields, func_types, p) ==
  IF p > Len(m_fields)
  THEN [fields |-> fields, func_types |-> func_types]
  ELSE LET decl == m_fields[p].payload.decl
       IN  IF /\ KindOf(m_fields[p]) = "Func"
              /\ ~decl.has_func_type
              /\ GetFuncTypeIndex_Sig(fields, func_types, decl.sig)
                   = kInvalidIndex
           THEN ResolveFuncTypesFrom(
                  Append(fields,
                         ModuleField("FuncType", NoKind, "",
                                     [Payload EXCEPT !.sig = decl.sig])),
                  Append(func_types, Len(fields) + 1), p + 1)
           ELSE ResolveFuncTypesFrom(fields, func_types, p + 1)

\* The signatures of the functions of the module, in index order.
FuncSigs ==
  [k \in 1..Len(m_handles["Func"]) |->
     m_fields[m_handles["Func"][k]].payload.decl.sig]

\* (func (param ...) (result ...) ...): a function with an inline signature.
ParseFunc(sig) ==
  /\ \/ Len(FuncSigs) < MaxFuncs
     \/ /\ Len(FuncSigs) < Len(TestFuncSignatures)
        /\ Append(FuncSigs, sig)
             = SubSeq(TestFuncSignatures, 1, Len(FuncSigs) + 1)
  /\ AppendField(ModuleField("Func", NoKind, "",
                             [Payload EXCEPT !.decl.sig = sig]))

\* The end of the module text: the pass that gives every function a type.
ResolveFuncTypes ==
  LET r == ResolveFuncTypesFrom(m_fields, m_handles["FuncType"], 1)
  IN  /\ m_fields' = r.fields
      /\ m_handles' = [m_handles EXCEPT !["FuncType"] = r.func_types]
      /\ m_last' = [NoAppend EXCEPT !.type = "ResolveFuncTypes"]
      /\ UNCHANGED <<m_imports, m_num_imports, m_bindings>>
      /\ UNCHANGED <<opVars, varVars, ltVars, scriptVars, funcVars>>

FuncTypesNext ==
  \/ \E sig \in Signatures : ParseFunc(sig)
  \/ ResolveFuncTypes

(***************************************************************************)
(* Element and data segments                                               *)
(***************************************************************************)

\* Bound of the segment exploration: the number of segments parsed.
MaxSegments == 3

\* The bits of the flags byte of a segment.
SegPassive == 1
SegHasIndex == 2
SegUseElemExprs == 4

\* a & b and a | b on uint8_t.
RECURSIVE BitAnd(_, _)
BitAnd(a, b) ==
  IF a = 0 \/ b = 0 THEN 0
  ELSE (a % 2) * (b % 2) + 2 * BitAnd(a \div 2, b \div 2)
BitOr(a, b) == a + b - BitAnd(a, b)

\* is_passive testing the index bit.
is_passive_HasIndex(segment) == BitAnd(segment.flags, SegHasIndex) # 0

\* bool is_passive() const { return flags & SegPassive; }
is_passive(segment) == BitAnd(segment.flags, SegPassive) # 0

\* struct ElemExpr: ElemExpr() and ElemExpr(Var).
RefNull == [kind |-> "RefNull", var |-> IndexVar(kInvalidIndex)]
RefFunc(v) == [kind |-> "RefFunc", var |-> v]

\* What the text of a segment can spell out: an offset (an active segment)
\* or none, for an active segment a table or memory index, and elements
\* given as element expressions instead of function indices.
SegmentForms ==
  {form \in [offset : BOOLEAN, index : BOOLEAN, elem_exprs : BOOLEAN] :
     form.index => form.offset}

\* The two element segments of the reference-types test and the flags the
\* test expects for them.
TestElemForms ==
  << [offset |-> TRUE, index |-> FALSE, elem_exprs |-> FALSE],
     [offset |-> FALSE, index |-> FALSE, elem_exprs |-> TRUE] >>
TestElemFlags == <<0, 5>>

\* The flags, Var and offset the parser gives a segment of a form.
Segment(form) ==
  [Payload EXCEPT
     !.flags = BitOr(BitOr(BitOr(@,
                 IF form.offset THEN 0 ELSE SegPassive),
                 IF form.index THEN SegHasIndex ELSE 0),
                 IF form.elem_exprs THEN SegUseElemExprs ELSE 0),
     !.var = IF form.index THEN IndexVar(1) ELSE IndexVar(0),
     !.offset = IF form.offset THEN <<"i32.const 0">> ELSE <<>>,
     !.form = form]

\* (elem ...): an element segment.
ParseElemSegment(form) ==
  /\ Len(m_fields) < MaxSegments
  /\ AppendField(ModuleField("ElemSegment", NoKind, "",
       [Segment(form) EXCEPT
          !.elem_exprs = IF form.elem_exprs THEN <<RefNull>>
                         ELSE <<RefFunc(IndexVar(0))>>]))

\* (data ...): a data segment.
ParseDataSegment(form) ==
  /\ Len(m_fields) < MaxSegments
  /\ ~form.elem_exprs
  /\ AppendField(ModuleField("DataSegment", NoKind, "", Segment(form)))

SegmentsNext ==
  \/ \E form \in SegmentForms : ParseElemSegment(form)
  \/ \E form \in SegmentForms : ParseDataSegment(form)

(***************************************************************************)
(* Resolution of names                                                     *)
(***************************************************************************)

\* Bound of the exploration: the fields of a module, other than the module
\* of the reference-types test, which is explored whole.
MaxResolveFields == 2

\* The module of the reference-types test: three tables, the segment $baz
\* on the default table holding $f1, a passive segment, and ten functions
\* of which nine name a table.
TestModule ==
  LET Func_(nm, i, body) ==
        ModuleField("Func", NoKind, nm,
                    [Payload EXCEPT !.decl.sig = TestFuncSignatures[i],
                                    !.exprs = body])
      TableExpr(opcode, nm) ==
        <<[opcode |-> opcode, kind |-> "Table", var |-> NameVar(nm)]>>
  IN  << ModuleField("Table", NoKind, "$foo", Payload),
         ModuleField("Table", NoKind, "$bar", Payload),
         ModuleField("Table", NoKind, "$baz", Payload),
         ModuleField("ElemSegment", NoKind, "$baz",
                     [Payload EXCEPT !.var = IndexVar(0),
                                     !.offset = <<"i32.const 0">>,
                                     !.elem_exprs = <<RefFunc(NameVar("$f1"))>>]),
         ModuleField("ElemSegment", NoKind, "",
                     [Payload EXCEPT !.var = IndexVar(0),
                                     !.flags = BitOr(SegPassive, SegUseElemExprs),
                                     !.elem_exprs = <<RefNull>>]),
         Func_("$f1", 1, TableExpr("table.get", "$foo")),
         Func_("", 2, TableExpr("table.get", "$bar")),
         Func_("", 3, TableExpr("table.set", "$foo")),
         Func_("", 4, TableExpr("table.set", "$bar")),
         Func_("", 5, TableExpr("table.grow", "$foo")),
         Func_("", 6, TableExpr("table.grow", "$bar")),
         Func_("", 7, <<>>),
         Func_("", 8, TableExpr("table.size", "$foo")),
         Func_("", 9, TableExpr("table.size", "$bar")),
         Func_("", 10, TableExpr("table.size", "$baz")) >>

\* The table operands of the ten functions in the disassembly the test
\* expects; function 6 names no table.
TestTableOperands == <<0, 1, 0, 1, 0, 1, kInvalidIndex, 0, 1, 2>>

\* The fields the exploration parses: definitions with and without a name
\* whose Vars are indices, bound names or a name that nothing binds.
ResolveFields ==
  LET refs == {IndexVar(0), NameVar("$f"), NameVar(UnboundName)}
  IN  {ModuleField(type, NoKind, nm, Payload) :
         type \in {"Table", "Memory", "FuncType"}, nm \in FieldNames}
      \cup {ModuleField("Func", NoKind, nm,
              [Payload EXCEPT
                 !.decl.has_func_type = is_name(t),
                 !.decl.type_var = t,
                 !.exprs = <<[opcode |-> "table.get", kind |-> "Table",
                              var |-> v]>>]) :
              nm \in FieldNames, v \in refs,
              t \in {IndexVar(kInvalidIndex), NameVar("$f")}}
      \cup {ModuleField("ElemSegment", NoKind, "",
              [Payload EXCEPT !.var = t, !.offset = <<"i32.const 0">>,
                              !.elem_exprs = <<RefFunc(v)>>]) :
              t \in {IndexVar(0), NameVar("$f")},
              v \in {NameVar("$f"), NameVar(UnboundName)}}
      \cup {ModuleField("DataSegment", NoKind, "",
              [Payload EXCEPT !.var = t, !.offset = <<"i32.const 0">>]) :
              t \in {IndexVar(0), NameVar("$f")}}

\* ResolveVar without the rewriting.
ResolveVar_Keep(kind, v) == v

\* The pass on one Var of a namespace: a name that is bound becomes the
\* index FindIndex gives; a name that is not bound stays, to be reported.
ResolveVar(kind, v) ==
  IF is_name(v)
  THEN LET idx == FindIndex(m_bindings[kind], name(v).name)
       IN  IF idx = kInvalidIndex THEN v ELSE IndexVar(idx)
  ELSE v

\* The pass on one field: the type a function refers to, the table or
\* memory of a segment, the functions of its elements, and the Vars of the
\* instructions of a function.
ResolveField(field) ==
  LET p == field.payload
  IN  [field EXCEPT !.payload =
        [p EXCEPT
           !.decl.type_var =
             IF p.decl.has_func_type THEN ResolveVar("FuncType", @) ELSE @,
           !.var =
             IF field.type = "ElemSegment" THEN ResolveVar("Table", @)
             ELSE IF field.type = "DataSegment" THEN ResolveVar("Memory", @)
             ELSE @,
           !.elem_exprs =
             [i \in 1..Len(p.elem_exprs) |->
                IF p.elem_exprs[i].kind = "RefFunc"
                THEN RefFunc(ResolveVar("Func", p.elem_exprs[i].var))
                ELSE p.elem_exprs[i]],
           !.exprs =
             [i \in 1..Len(p.exprs) |->
                [p.exprs[i] EXCEPT !.var = ResolveVar(p.exprs[i].kind, @)]]]]

\* A field is parsed and appended to the module; the text is parsed whole
\* before the pass runs.
ResolveParseField ==
  \E field \in ResolveFields \cup {TestModule[i] : i \in 1..Len(TestModule)} :
    /\ m_last.type # "ResolveNames"
    /\ \/ Len(m_fields) < MaxResolveFields
       \/ /\ Len(m_fields) < Len(TestModule)
          /\ Append(m_fields, field) = SubSeq(TestModule, 1, Len(m_fields) + 1)
    /\ AppendField(field)

\* The resolution pass over the whole module.
ResolveNames ==
  /\ m_fields' = [p \in 1..Len(m_fields) |-> ResolveField(m_fields[p])]
  /\ m_last' = [NoAppend EXCEPT !.type = "ResolveNames"]
  /\ UNCHANGED <<m_handles, m_imports, m_num_imports, m_bindings>>
  /\ UNCHANGED <<opVars, varVars, ltVars, scriptVars, funcVars>>

ResolveNext ==
  \/ ResolveParseField
  \/ ResolveNames

(***************************************************************************)
(* Script                                                                  *)
(***************************************************************************)

\* Bound of the Script exploration: the number of commands.
MaxCommands == 3

\* enum class CommandType
CommandTypes ==
  {"Module", "Action", "Register", "AssertMalformed", "AssertInvalid",
   "AssertUnlinkable", "AssertUninstantiable", "AssertReturn",
   "AssertReturnFunc", "AssertReturnCanonicalNan",
   "AssertReturnArithmeticNan", "AssertTrap", "AssertExhaustion"}

\* A Module* is the place of the ModuleCommand that owns the module.
NoFirstModuleCall == [call |-> "none", module |-> nullptr]

\* classof of another command type.
classof_Action(cmd) == cmd.type = "Action"

\* CommandMixin<CommandType::Module>::classof, as dyn_cast<ModuleCommand>
\* uses it.
classof(cmd) == cmd.type = "Module"

\* The loop of GetFirstModule from command i on.
RECURSIVE GetFirstModuleFrom(_, _)
GetFirstModuleFrom(commands, i) ==
  IF i > Len(commands) THEN nullptr
  ELSE IF classof(commands[i]) THEN i
       ELSE GetFirstModuleFrom(commands, i + 1)

\* const Module* Script::GetFirstModule() const
GetFirstModule(commands) == GetFirstModuleFrom(commands, 1)

\* A default-constructed Script.
ScriptInit ==
  /\ s_commands = <<>>
  /\ s_ret = NoFirstModuleCall

\* script.commands.emplace_back(command)
ScriptAppendCommand(type) ==
  /\ Len(s_commands) < MaxCommands
  /\ s_commands' = Append(s_commands, [type |-> type])
  /\ s_ret' = NoFirstModuleCall
  /\ UNCHANGED <<opVars, varVars, ltVars, modVars, funcVars>>

\* script.GetFirstModule()
ScriptGetFirstModule ==
  /\ s_ret' = [call |-> "GetFirstModule",
               module |-> GetFirstModule(s_commands)]
  /\ UNCHANGED <<s_commands, opVars, varVars, ltVars, modVars, funcVars>>

ScriptNext ==
  \/ \E type \in CommandTypes : ScriptAppendCommand(type)
  \/ ScriptGetFirstModule

(***************************************************************************)
(* Func: parameters, locals and their names                                *)
(***************************************************************************)

\* Bounds of the Func exploration: parameters, declarations of locals, and
\* names bound to them.
MaxParams == 2
MaxLocalDecls == 2
MaxLocalBindings == 3

\* The names of parameters and locals, in the order of std::string.
LocalNames == <<"$x", "$y">>

\* operator< taking every name for the smaller one.
StringLess_Always(lhs, rhs) == TRUE

\* operator<(const std::string&, const std::string&)
StringLess(lhs, rhs) ==
  \E i, j \in 1..Len(LocalNames) :
    i < j /\ LocalNames[i] = lhs /\ LocalNames[j] = rhs

\* explicit Func(string_view name)
Func ==
  [decl |-> FuncDeclaration, local_types |-> <<>>, bindings |-> <<>>]

\* Index GetNumParams() const, Type GetParamType(Index) const, through
\* FuncDeclaration to FuncSignature.
GetNumParams(func) == Len(func.decl.sig.param_types) % IndexModulus
GetParamType(func, idx) == func.decl.sig.param_types[idx + 1]

\* Index GetNumLocals() const { return local_types.size(); }
GetNumLocals(func) == size(func.local_types)

\* GetNumParamsAndLocals without the parameters.
GetNumParamsAndLocals_LocalsOnly(func) == GetNumLocals(func)

\* Index GetNumParamsAndLocals() const
GetNumParamsAndLocals(func) ==
  (GetNumParams(func) + GetNumLocals(func)) % IndexModulus

\* Type GetLocalType(Index) const: a parameter, or else a local.
GetLocalType(func, idx) ==
  LET num_params == GetNumParams(func)
  IN  IF idx < num_params
      THEN [status |-> "value", type |-> GetParamType(func, idx)]
      ELSE operator_subscript(func.local_types,
                              (idx - num_params) % IndexModulus)

\* Index GetLocalIndex(const Var&) const
GetLocalIndex(func, v) ==
  IF is_index(v) THEN index(v).index
  ELSE FindIndex(func.bindings, name(v).name)

\* The scan of MakeTypeBindingReverseMapping from entry i of the table on:
\* a slot takes the name of an entry when it is empty or holds a name that
\* comes later in the order of strings.
RECURSIVE ReverseMappingFrom(_, _, _)
ReverseMappingFrom(bindings, i, out) ==
  IF i > Len(bindings) THEN out
  ELSE LET nm == bindings[i].name
           slot == bindings[i].binding.index + 1
       IN  ReverseMappingFrom(bindings, i + 1,
             IF out[slot] = "" \/ StringLess(nm, out[slot])
             THEN [out EXCEPT ![slot] = nm]
             ELSE out)

\* void MakeTypeBindingReverseMapping(num_types, bindings, out)
MakeTypeBindingReverseMapping(num_types, bindings) ==
  ReverseMappingFrom(bindings, 1, [i \in 1..num_types |-> ""])

NoFuncCall ==
  [call |-> "none", arg |-> IndexVar(kInvalidIndex), status |-> "none",
   type |-> NoType, index |-> NoIndex, out |-> <<>>]

FuncInit ==
  /\ f_func = Func
  /\ f_ret = NoFuncCall

\* (param $x t) or (param t): the parameter's type goes to decl.sig and a
\* name is bound to the parameter's index.  Parameters come before locals.
FuncAppendParam(t, nm) ==
  LET idx == GetNumParams(f_func)
  IN  /\ f_ret = NoFuncCall
      /\ idx < MaxParams
      /\ f_func.local_types = <<>>
      /\ Len(f_func.bindings) < MaxLocalBindings \/ nm = ""
      /\ \E b \in IF nm = "" THEN {f_func.bindings}
                  ELSE emplace(f_func.bindings, nm,
                               Binding(Len(f_func.bindings) + 1, idx)) :
           f_func' = [f_func EXCEPT
                        !.decl.sig.param_types = Append(@, t),
                        !.bindings = b]
      /\ UNCHANGED <<f_ret, opVars, varVars, ltVars, modVars, scriptVars>>

\* func.local_types.AppendDecl(t, c): a declaration of c locals.
FuncAppendLocalDecl(t, c) ==
  /\ f_ret = NoFuncCall
  /\ Len(f_func.local_types) < MaxLocalDecls
  /\ f_func' = [f_func EXCEPT !.local_types = AppendDecl(@, t, c)]
  /\ UNCHANGED <<f_ret, opVars, varVars, ltVars, modVars, scriptVars>>

\* func.bindings.emplace(nm, Binding(idx)): a name for parameter or local
\* idx, as a name section gives it.
FuncBind(nm, idx) ==
  /\ f_ret = NoFuncCall
  /\ Len(f_func.bindings) < MaxLocalBindings
  /\ idx < GetNumParamsAndLocals(f_func)
  /\ \E b \in emplace(f_func.bindings, nm,
                      Binding(Len(f_func.bindings) + 1, idx)) :
       f_func' = [f_func EXCEPT !.bindings = b]
  /\ UNCHANGED <<f_ret, opVars, varVars, ltVars, modVars, scriptVars>>

\* func.GetLocalType(idx), for an index in or just beyond the index space.
FuncGetLocalType(idx) ==
  /\ f_ret = NoFuncCall
  /\ idx <= GetNumParamsAndLocals(f_func) + 1 \/ idx = kInvalidIndex
  /\ f_ret' = [NoFuncCall EXCEPT
                 !.call = "GetLocalType", !.arg = IndexVar(idx),
                 !.status = GetLocalType(f_func, idx).status,
                 !.type = GetLocalType(f_func, idx).type]
  /\ UNCHANGED <<f_func, opVars, varVars, ltVars, modVars, scriptVars>>

\* func.GetLocalIndex(v)
FuncGetLocalIndex(v) ==
  /\ f_ret = NoFuncCall
  /\ f_ret' = [NoFuncCall EXCEPT
                 !.call = "GetLocalIndex", !.arg = v, !.status = "value",
                 !.index = GetLocalIndex(f_func, v)]
  /\ UNCHANGED <<f_func, opVars, varVars, ltVars, modVars, scriptVars>>

\* MakeTypeBindingReverseMapping(func.GetNumParamsAndLocals(),
\*                               func.bindings, &out)
FuncMakeReverseMapping ==
  /\ f_ret = NoFuncCall
  /\ f_ret' = [NoFuncCall EXCEPT
                 !.call = "MakeTypeBindingReverseMapping",
                 !.status = "value",
                 !.out = MakeTypeBindingReverseMapping(
                           GetNumParamsAndLocals(f_func), f_func.bindings)]
  /\ UNCHANGED <<f_func, opVars, varVars, ltVars, modVars, scriptVars>>

\* The caller has consumed the answer.
FuncReturn ==
  /\ f_ret # NoFuncCall
  /\ f_ret' = NoFuncCall
  /\ UNCHANGED <<f_func, opVars, varVars, ltVars, modVars, scriptVars>>

\* A function is parsed and asked about its parameters and locals.
FuncNext ==
  \/ \E t \in LocalTypeSet, nm \in {"", LocalNames[1]} : FuncAppendParam(t, nm)
  \/ \E t \in LocalTypeSet, c \in 0..MaxCount : FuncAppendLocalDecl(t, c)
  \/ \E idx \in (0..(MaxParams + MaxLocalDecls * MaxCount))
                  \cup {kInvalidIndex} : FuncGetLocalType(idx)
  \/ \E v \in {IndexVar(i) : i \in (0..(MaxParams + 1)) \cup {kInvalidIndex}}
              \cup {NameVar(LocalNames[k]) : k \in 1..Len(LocalNames)} :
       FuncGetLocalIndex(v)
  \/ FuncReturn

\* The names of a function's parameters are collected for a formatter.
ReverseMappingNext ==
  \/ \E nm \in {LocalNames[k] : k \in 1..Len(LocalNames)} \cup {""} :
       FuncAppendParam("I32", nm)
  \/ \E k \in 1..Len(LocalNames), idx \in 0..MaxParams :
       FuncBind(LocalNames[k], idx)
  \/ FuncMakeReverseMapping
  \/ FuncReturn

(***************************************************************************)
(* Specifications                                                          *)
(***************************************************************************)

Init == OpInit /\ VarInit /\ LTInit /\ ModInit /\ ScriptInit /\ FuncInit

SpecOpcode == Init /\ [][OpNext]_vars
SpecVar == Init /\ [][VarNext]_vars
SpecLocalTypes == Init /\ [][LTNext]_vars
SpecModule == Init /\ [][ModNext]_vars
SpecFuncTypes == Init /\ [][FuncTypesNext]_vars
SpecSegments == Init /\ [][SegmentsNext]_vars
SpecScript == Init /\ [][ScriptNext]_vars
SpecFunc == Init /\ [][FuncNext]_vars
SpecReverseMapping == Init /\ [][ReverseMappingNext]_vars
SpecResolve == Init /\ [][ResolveNext]_vars

(***************************************************************************)
(* Properties of the opcode catalogue                                      *)
(***************************************************************************)

Cur == op_query.cur
CurInfo == OpcodeTable[op_query.cur]

\* C1: the (prefix, code) pair uniquely identifies an entry: no other row
\* has both the prefix and the code of the row a query was made for.
C1_PrefixCodeUnique ==
  Cur \in Opcodes =>
    \A j \in Opcodes \ {Cur} :
      <<OpcodeTable[j].prefix, OpcodeTable[j].code>>
        # <<CurInfo.prefix, CurInfo.code>>

\* C1 witness: FromCode was asked for a prefixed row whose code alone is
\* shared with a row of another prefix.
C1_Witness ==
  /\ op_query.kind = "FromCode"
  /\ Cur \in Opcodes
  /\ CurInfo.prefix # 0
  /\ \E j \in Opcodes : /\ OpcodeTable[j].code = CurInfo.code
                        /\ OpcodeTable[j].prefix # CurInfo.prefix

\* C2: the table in its declared order is strictly increasing in
\* (prefix, code): each row's key is below that of the row after it.
C2_SortedByPrefixCode ==
  (Cur \in Opcodes /\ Cur < NumOpcodes) =>
    PrefixCode(CurInfo.prefix, CurInfo.code)
      < PrefixCode(OpcodeTable[Cur + 1].prefix, OpcodeTable[Cur + 1].code)

\* C3: FromCode(e.prefix, e.code) returns e for every row e.
C3_FromCodeRoundTrip ==
  (op_query.kind = "FromCode" /\ Cur \in Opcodes) => op_result.opcode = Cur

\* C4: FromName(e.text) returns e for every row e, no other row carries
\* e's mnemonic, and a text that is the mnemonic of no row (a differently
\* cased one included) yields the Invalid opcode.
C4_FromNameRoundTrip ==
  op_query.kind = "FromName" =>
    /\ Cur \in Opcodes =>
         /\ op_query.text = CurInfo.text
         /\ op_result.opcode = Cur
         /\ \A j \in Opcodes \ {Cur} : OpcodeTable[j].text # CurInfo.text
    /\ (\A j \in Opcodes : OpcodeTable[j].text # op_query.text) =>
         op_result.opcode = Invalid
    /\ op_query.text \in UnknownTexts => op_result.opcode = Invalid

\* C4 witness: FromName("i32.add") answered the I32Add row.
C4_Witness ==
  /\ op_query.kind = "FromName"
  /\ op_query.text = "i32.add"
  /\ op_result.opcode \in Opcodes
  /\ OpcodeTable[op_result.opcode].Name = "I32Add"
  /\ OpcodeTable[op_result.opcode].code = \h6a

\* C5: the number of operand slots of a signature is the arity of the
\* instruction: one for the unary operators, two for the binary ones.
C5_OperandSlotsAreArity ==
  (op_query.kind = "Signature" /\ Cur \in Opcodes) =>
    /\ CurInfo.Name \in UnaryOperators => NumOperands(op_result.operands) = 1
    /\ CurInfo.Name \in BinaryOperators => NumOperands(op_result.operands) = 2

\* C6: the result type of a signature is a type exactly when the
\* instruction produces a value; so value-producing instructions such as
\* local.get, table.size or select have a result type other than ___.
C6_ResultTypeIffProducesValue ==
  (op_query.kind = "Signature" /\ Cur \in Opcodes) =>
    (op_result.tr # "___" <=> ProducesValue(CurInfo))

\* C7: the encoding is the single byte [code] for an unprefixed opcode and
\* the prefix byte followed by the ULEB128 of code for a prefix of 0xFC,
\* 0xFD or 0xFE; the opcode bytes of the reference-types test are those.
C7_BinaryEncoding ==
  (op_query.kind = "BinaryEncoding" /\ Cur \in Opcodes) =>
    LET b == op_result.bytes
    IN  /\ CurInfo.prefix = 0 => b = <<CurInfo.code>>
        /\ CurInfo.prefix \in {\hfc, \hfd, \hfe} =>
             /\ Len(b) >= 2
             /\ b[1] = CurInfo.prefix
             /\ \A k \in 2..Len(b) : (b[k] >= 128) <=> (k < Len(b))
             /\ ReadU32Leb128(Tail(b)) = CurInfo.code
        /\ \A d \in TestDisassembly : d.text = CurInfo.text => b = d.bytes

\* C7 witness: table.grow was encoded as fc 0f.
C7_Witness ==
  /\ op_query.kind = "BinaryEncoding"
  /\ op_query.text = "table.grow"
  /\ op_result.bytes = <<\hfc, \h0f>>

\* C8 as stated: every encoding is one byte for an unprefixed opcode and
\* two bytes for a prefixed one.
C8_OneOrTwoBytes ==
  (op_query.kind = "BinaryEncoding" /\ Cur \in Opcodes) =>
    Len(op_result.bytes) = IF CurInfo.prefix = 0 THEN 1 ELSE 2

\* C8 amended: every encoding is one to three bytes long: one byte for an
\* unprefixed opcode, two for a prefixed opcode with a code below 0x80 and
\* three (the prefix and a two-byte ULEB128) for a prefixed opcode with a
\* code of 0x80 or more; i64x2.neg is fd 84 01, i64x2.load_splat fd c5 01.
C8_OneToThreeBytes ==
  (op_query.kind = "BinaryEncoding" /\ Cur \in Opcodes) =>
    /\ Len(op_result.bytes) =
         IF CurInfo.prefix = 0 THEN 1
         ELSE IF CurInfo.code < \h80 THEN 2 ELSE 3
    /\ CurInfo.Name = "I64X2Neg" => op_result.bytes = <<\hfd, \h84, \h01>>
    /\ CurInfo.Name = "I64X2LoadSplat" =>
         op_result.bytes = <<\hfd, \hc5, \h01>>

\* C8 witness: a prefixed opcode with a code of 0x80 or more was encoded.
C8_Witness ==
  /\ op_query.kind = "BinaryEncoding"
  /\ Cur \in Opcodes
  /\ CurInfo.prefix = \hfd
  /\ CurInfo.code >= \h80
  /\ Len(op_result.bytes) = 3

(***************************************************************************)
(* Properties of Var                                                       *)
(***************************************************************************)

\* C9: a Var is in exactly one of the forms Index and Name; after
\* set_name(s) it is a Name var whose name() is s and after set_index(i)
\* an Index var whose index() is i, whatever it was before; and the
\* accessor of the inactive form fails its assertion and returns nothing.
C9_VarOneForm ==
  /\ is_index(TheVar) # is_name(TheVar)
  /\ var_last.op \in {"set_name", "Var(name)"} =>
       /\ is_name(TheVar)
       /\ name(TheVar).status = "value"
       /\ name(TheVar).name = var_last.name
  /\ var_last.op \in {"set_index", "Var(index)"} =>
       /\ is_index(TheVar)
       /\ index(TheVar).status = "value"
       /\ index(TheVar).index = var_last.index
  /\ is_name(TheVar) => index(TheVar).status = "assert"
  /\ is_index(TheVar) => name(TheVar).status = "assert"
  /\ var_ret.call = "index" =>
       IF is_index(TheVar)
       THEN var_ret.status = "value" /\ var_ret.index = var_index_
       ELSE var_ret.status = "assert" /\ var_ret.index \notin VarIndices
  /\ var_ret.call = "name" =>
       IF is_name(TheVar)
       THEN var_ret.status = "value" /\ var_ret.name = var_name_
       ELSE var_ret.status = "assert" /\ var_ret.name \notin VarNames

\* C9 witness: Var(i), then set_name(s), then index() failed its assertion.
C9_Witness ==
  /\ var_prev.op = "Var(index)"
  /\ var_last.op = "set_name"
  /\ is_name(TheVar)
  /\ var_ret.call = "index"
  /\ var_ret.status = "assert"

(***************************************************************************)
(* Properties of LocalTypes                                                *)
(***************************************************************************)

\* C10: after Set(v), whatever the declarations were before, size() is
\* the length of v and iterating from begin() to end() yields exactly the
\* elements of v in order.
C10_SetThenIterate ==
  lt_set.valid =>
    /\ size(lt_decls) = Len(lt_set.v)
    /\ Iterate(lt_decls) = lt_set.v
    /\ lt_it # NoIter =>
         /\ Len(lt_out) <= Len(lt_set.v)
         /\ lt_out = SubSeq(lt_set.v, 1, Len(lt_out))
         /\ IterEq(lt_it, end(lt_decls)) => lt_out = lt_set.v

\* C10 witness: Set([i32, i32, f64, i32]) replaced earlier declarations and
\* a loop from begin() reached end() having yielded the four types.
C10_Witness ==
  /\ lt_set.valid
  /\ lt_set.prior > 0
  /\ lt_set.v = <<"I32", "I32", "F64", "I32">>
  /\ lt_it # NoIter
  /\ IterEq(lt_it, end(lt_decls))
  /\ lt_out = lt_set.v

\* C11: after any sequence of Set and AppendDecl calls every stored
\* declaration has a count above zero, and AppendDecl(t, 0) leaves the
\* declaration list, size() and the iterated sequence as they were.
C11_CountsPositive ==
  /\ \A i \in 1..Len(lt_decls) : lt_decls[i].second > 0
  /\ (lt_last.op = "AppendDecl" /\ lt_last.count = 0) =>
       /\ lt_decls = lt_last.before
       /\ size(lt_decls) = size(lt_last.before)
       /\ Iterate(lt_decls) = Iterate(lt_last.before)

\* C11 witness: AppendDecl(f64, 0) was called on a LocalTypes holding two
\* declarations, and both are still there.
C11_Witness ==
  /\ lt_last.op = "AppendDecl"
  /\ lt_last.count = 0
  /\ lt_last.type = "F64"
  /\ Len(lt_last.before) = 2
  /\ Len(lt_decls) = 2

\* C12: immediately after Set(v) the declarations are the maximal
\* run-length encoding of v: no two adjacent declarations have the same
\* type and the counts are the lengths of the maximal runs of v, so that
\* Set([i32, i32, f64, i32]) gives [(i32,2),(f64,1),(i32,1)]; a later
\* AppendDecl(t, n) with n > 0 appends a declaration of its own even when t
\* is the type of the last declaration.
C12_SetIsMaximalRunLength ==
  /\ lt_set.valid =>
       /\ \A i \in 1..Len(lt_decls) - 1 :
            lt_decls[i].first # lt_decls[i + 1].first
       /\ \A i \in 1..Len(lt_decls) : lt_decls[i].second > 0
       /\ Iterate(lt_decls) = lt_set.v
       /\ lt_set.v = <<"I32", "I32", "F64", "I32">> =>
            lt_decls = << [first |-> "I32", second |-> 2],
                          [first |-> "F64", second |-> 1],
                          [first |-> "I32", second |-> 1] >>
  /\ (lt_last.op = "AppendDecl" /\ lt_last.count > 0) =>
       /\ Len(lt_decls) = Len(lt_last.before) + 1
       /\ SubSeq(lt_decls, 1, Len(lt_last.before)) = lt_last.before
       /\ lt_decls[Len(lt_decls)] =
            [first |-> lt_last.type, second |-> lt_last.count]

\* C12 witness: Set([i32, i32, f64]) and then AppendDecl(f64, 1): the last
\* two declarations both have type f64.
C12_Witness ==
  /\ lt_last.op = "AppendDecl"
  /\ lt_last.set.valid
  /\ lt_last.set.v = <<"I32", "I32", "F64">>
  /\ lt_last.type = "F64"
  /\ lt_last.count = 1
  /\ lt_decls = << [first |-> "I32", second |-> 2],
                   [first |-> "F64", second |-> 1],
                   [first |-> "F64", second |-> 1] >>

(***************************************************************************)
(* Properties of Module                                                    *)
(***************************************************************************)

\* The kind's index of the field at place p of the field list: the size of
\* the kind's handle array just before the field was appended.
PlacedAt(p) ==
  Cardinality({q \in 1..(p - 1) : KindOf(m_fields[q]) = KindOf(m_fields[p])})

\* The places of the fields that carry the name nm in the namespace of kind.
FieldsNamed(kind, nm) ==
  {p \in 1..Len(m_fields) :
     KindOf(m_fields[p]) = kind /\ m_fields[p].name = nm}

\* C13: for each kind X, after AppendField of a definition with a
\* non-empty name that is not already bound, GetXIndex(Var(name)) is the
\* position at which the definition was placed in X's handle array, and it
\* stays that after any later sequence of AppendField calls.
C13_NameResolvesToPlace ==
  \A p \in 1..Len(m_fields) :
    LET field == m_fields[p]
        kind == KindOf(field)
    IN  ( /\ field.type # "Import"
          /\ field.name # ""
          /\ \A q \in FieldsNamed(kind, field.name) : p <= q )
        => GetIndex(kind, NameVar(field.name)) = PlacedAt(p)

\* The places of the ImportModuleFields of a kind.
ImportFields(kind) ==
  {p \in 1..Len(m_fields) :
     m_fields[p].type = "Import" /\ m_fields[p].kind = kind}

\* The Vars a caller may ask about: indices in and beyond the handle
\* arrays, the invalid index, bound names and a name no field carries.
QueryVars ==
  {IndexVar(i) : i \in (0..MaxFields) \cup {kInvalidIndex}}
    \cup {NameVar(nm) : nm \in ModuleNames \cup {UnboundName}}

\* C14: for every import kind X and every Var v, IsImport(X, v) is true
\* exactly when GetXIndex(v) is below the number of ImportModuleFields of
\* kind X appended so far, which is what num_x_imports counts; after one
\* function import and then one function definition num_func_imports is 1,
\* funcs has 2 entries, IsImport(Func, Var(0)) is true and
\* IsImport(Func, Var(1)) is false; IsImport of an unbound name is false.
C14_IsImport ==
  /\ \A kind \in ExternalKinds :
       LET n == Cardinality(ImportFields(kind))
       IN  /\ m_num_imports[kind] = n
           /\ \A v \in QueryVars :
                IsImport(kind, v) <=> GetIndex(kind, v) < n
           /\ \A nm \in ModuleNames \cup {UnboundName} :
                EqualRange(m_bindings[kind], nm) = {}
                  => ~IsImport(kind, NameVar(nm))
  /\ ( /\ Len(m_fields) = 2
       /\ m_fields[1].type = "Import" /\ m_fields[1].kind = "Func"
       /\ m_fields[2].type = "Func" )
     => /\ m_num_imports["Func"] = 1
        /\ Len(m_handles["Func"]) = 2
        /\ IsImport("Func", IndexVar(0))
        /\ ~IsImport("Func", IndexVar(1))

\* C14 witness: one function import, then the function definition $f, which
\* is no import whether asked for by index or by name.
C14_Witness ==
  /\ Len(m_fields) = 2
  /\ m_fields[1].type = "Import" /\ m_fields[1].kind = "Func"
  /\ m_fields[2].type = "Func" /\ m_fields[2].name = "$f"
  /\ m_fields[1].name = ""
  /\ IsImport("Func", IndexVar(0))
  /\ ~IsImport("Func", IndexVar(1))
  /\ ~IsImport("Func", NameVar("$f"))

\* C15: when two definitions of one kind carry the same name, both
\* bindings are kept in the kind's binding table and the name resolves to
\* the index of the first one inserted, whatever is appended afterwards.
C15_FirstInsertedWins ==
  \A kind \in BindingKinds : \A nm \in ModuleNames :
    LET named == FieldsNamed(kind, nm)
    IN  ( /\ Cardinality(named) >= 2
          /\ \A p \in named : m_fields[p].type # "Import" )
        => /\ Cardinality(EqualRange(m_bindings[kind], nm))
                = Cardinality(named)
           /\ \E p \in named :
                /\ \A q \in named : p <= q
                /\ GetIndex(kind, NameVar(nm)) = PlacedAt(p)

C17_FuncTypesCoalesce ==
  LET types == m_handles["FuncType"]
      TypeSig(i) == m_fields[types[i]].payload.sig
      TypeOf(k) ==
        GetFuncTypeIndex_Decl(m_fields[m_handles["Func"][k]].payload.decl)
      Users(i) == {k \in 1..Len(FuncSigs) : TypeOf(k) = i - 1}
      FirstUser(i) == CHOOSE k \in Users(i) : \A l \in Users(i) : k <= l
  IN  m_last.type = "ResolveFuncTypes" =>
        /\ \A k \in 1..Len(FuncSigs) :
             /\ TypeOf(k) < Len(types)
             /\ TypeSig(TypeOf(k) + 1).param_types = FuncSigs[k].param_types
             /\ TypeSig(TypeOf(k) + 1).result_types
                  = FuncSigs[k].result_types
             /\ \A i \in 1..TypeOf(k) : TypeSig(i) # FuncSigs[k]
        /\ \A i, j \in 1..Len(types) : i < j =>
             /\ TypeSig(i) # TypeSig(j)
             /\ Users(i) # {} /\ Users(j) # {}
             /\ FirstUser(i) < FirstUser(j)
        /\ Len(types) = Cardinality({FuncSigs[k] : k \in 1..Len(FuncSigs)})
        /\ FuncSigs = TestFuncSignatures =>
             /\ [i \in 1..Len(types) |-> TypeSig(i)] = TestTypes
             /\ [k \in 1..Len(FuncSigs) |-> TypeOf(k)] = TestFunctionSigs

\* C17 witness: the ten functions of the reference-types module were
\* processed and the function type table holds four signatures.
C17_Witness ==
  /\ m_last.type = "ResolveFuncTypes"
  /\ FuncSigs = TestFuncSignatures
  /\ Len(m_handles["FuncType"]) = 4
  /\ m_fields[m_handles["FuncType"][4]].payload.sig
       = FuncSignature(<<"anyref">>, <<"i32">>)

\* The segments of a kind held by the module, in index order.
Segments(kind) ==
  [i \in 1..Len(m_handles[kind]) |-> m_fields[m_handles[kind][i]].payload]

\* C18: the flags byte of an element segment is the bitwise OR of Passive
\* (1) when the segment has no offset, HasIndex (2) when it names a table
\* index and UseElemExprs (4) when its elements are element expressions,
\* all other bits being zero: a passive segment holding one ref.null has
\* flags 0x05, an active segment on the default table holding function
\* indices has flags 0, and is_passive() is true exactly when bit 0 is set.
C18_ElemSegmentFlags ==
  LET elems == Segments("ElemSegment")
  IN  /\ \A i \in 1..Len(elems) :
           /\ elems[i].flags =
                (IF elems[i].offset = <<>> THEN 1 ELSE 0)
                + (IF elems[i].form.index THEN 2 ELSE 0)
                + (IF elems[i].form.elem_exprs THEN 4 ELSE 0)
           /\ elems[i].flags \in 0..7
           /\ is_passive(elems[i]) <=> elems[i].flags % 2 = 1
           /\ ( /\ elems[i].offset = <<>>
                /\ elems[i].elem_exprs = <<RefNull>> )
              => elems[i].flags = 5
           /\ ( /\ elems[i].offset # <<>>
                /\ elems[i].var = IndexVar(0)
                /\ ~elems[i].form.index
                /\ ~elems[i].form.elem_exprs )
              => elems[i].flags = 0
      /\ [i \in 1..Len(elems) |-> elems[i].form] = TestElemForms
           => [i \in 1..Len(elems) |-> elems[i].flags] = TestElemFlags

\* C18 witness: the two element segments of the reference-types test, the
\* active one with flags 0 and the passive one with flags 5.
C18_Witness ==
  /\ Len(m_handles["ElemSegment"]) = 2
  /\ Segments("ElemSegment")[1].form = TestElemForms[1]
  /\ Segments("ElemSegment")[2].form = TestElemForms[2]
  /\ Segments("ElemSegment")[1].flags = 0
  /\ ~is_passive(Segments("ElemSegment")[1])
  /\ Segments("ElemSegment")[2].flags = 5
  /\ is_passive(Segments("ElemSegment")[2])

C20_GetFirstModule ==
  LET modules == {i \in 1..Len(s_commands) : s_commands[i].type = "Module"}
  IN  s_ret.call = "GetFirstModule" =>
        /\ s_ret.module = nullptr <=> modules = {}
        /\ modules # {} =>
             /\ s_ret.module \in modules
             /\ \A i \in modules : s_ret.module <= i
             /\ \A i \in 1..(s_ret.module - 1) :
                  s_commands[i].type # "Module"

\* C20 witness: an AssertReturn command, then two Module commands, and
\* GetFirstModule returned the module of the second command.
C20_Witness ==
  /\ s_ret.call = "GetFirstModule"
  /\ Len(s_commands) = 3
  /\ s_commands[1].type = "AssertReturn"
  /\ s_commands[2].type = "Module"
  /\ s_commands[3].type = "Module"
  /\ s_ret.module = 2

(***************************************************************************)
(* Properties of LocalTypes: indexing and the end of iteration             *)
(***************************************************************************)

\* C25: in every LocalTypes state reached by Set and AppendDecl calls,
\* operator[](i) for i < size() is the i-th value that iteration from
\* begin() produces, and for i >= size() the indexing fails instead of
\* returning a type.
C25_IndexIsIterated ==
  LET n == size(lt_decls)
  IN  /\ Len(Iterate(lt_decls)) = n
      /\ \A i \in 0..(n - 1) :
           operator_subscript(lt_decls, i)
             = [status |-> "value", type |-> Iterate(lt_decls)[i + 1]]
      /\ \A i \in (n..(n + 2)) \cup {kInvalidIndex} :
           operator_subscript(lt_decls, i) = [status |-> "fail", type |-> NoType]
      /\ \A k \in 1..Len(lt_out) :
           operator_subscript(lt_decls, k - 1).type = lt_out[k]

\* Set([i32, i32, f64, i32]) iterated to the end: operator[](3) is the
\* fourth value yielded, and operator[](4) fails.
C25_Witness ==
  /\ lt_set.valid
  /\ lt_set.v = <<"I32", "I32", "F64", "I32">>
  /\ lt_out = <<"I32", "I32", "F64", "I32">>
  /\ operator_subscript(lt_decls, 3) = [status |-> "value", type |-> "I32"]
  /\ operator_subscript(lt_decls, 2) = [status |-> "value", type |-> "F64"]
  /\ operator_subscript(lt_decls, 4).status = "fail"

\* C27: an iterator started at begin() equals end() after exactly size()
\* increments and not earlier; begin() = end() exactly when there are no
\* declarations; and the iterator never rests on an index that is not less
\* than the count of the declaration it points at.
C27_IteratorReachesEnd ==
  /\ IterEq(begin(lt_decls), end(lt_decls)) <=> lt_decls = <<>>
  /\ lt_it # NoIter =>
       /\ Len(lt_out) <= size(lt_decls)
       /\ IterEq(lt_it, end(lt_decls)) <=> Len(lt_out) = size(lt_decls)
       /\ lt_it.decl <= Len(lt_decls) =>
            lt_it.index < lt_decls[lt_it.decl].second
       /\ lt_it.decl > Len(lt_decls) => IterEq(lt_it, end(lt_decls))

\* Three declarations of sizes 2, 1, 2 appended one by one and iterated:
\* the iterator is at end() after five increments.
C27_Witness ==
  /\ Len(lt_decls) = 3
  /\ lt_last.op = "AppendDecl"
  /\ size(lt_decls) = 5
  /\ Len(lt_out) = 5
  /\ IterEq(lt_it, end(lt_decls))

(***************************************************************************)
(* Properties of the opcode catalogue: the first byte of an encoding       *)
(***************************************************************************)

\* C30: the encoding is unambiguous from its first byte: the prefix of
\* every entry is 0, 0xFC, 0xFD or 0xFE, no unprefixed entry has a code of
\* 0xFC, 0xFD or 0xFE, so the byte of an unprefixed opcode is never the
\* first byte of a prefixed opcode's encoding, and two distinct entries
\* never have the same bytes.
C30_FirstByteDecides ==
  (op_query.kind = "BinaryEncoding" /\ Cur \in Opcodes) =>
    /\ CurInfo.prefix \in {0, \hfc, \hfd, \hfe}
    /\ CurInfo.prefix = 0 => CurInfo.code \notin {\hfc, \hfd, \hfe}
    /\ \A j \in Opcodes \ {Cur} :
         LET other == BinaryEncoding(OpcodeTable[j])
         IN  /\ other # op_result.bytes
             /\ (CurInfo.prefix = 0 /\ OpcodeTable[j].prefix # 0) =>
                  other[1] # op_result.bytes[1]
             /\ (CurInfo.prefix # 0 /\ OpcodeTable[j].prefix = 0) =>
                  other[1] # op_result.bytes[1]

\* C30 witness: the unprefixed opcode with the largest code, drop_keep
\* (0xe4), was encoded in one byte while prefixed opcodes with each of
\* the three prefixes exist.
C30_Witness ==
  /\ op_query.kind = "BinaryEncoding"
  /\ op_query.text = "drop_keep"
  /\ op_result.bytes = <<\he4>>
  /\ \A prefix \in {\hfc, \hfd, \hfe} :
       \E j \in Opcodes : BinaryEncoding(OpcodeTable[j])[1] = prefix

(***************************************************************************)
(* Properties of Module: lookups, frame of AppendField, caches             *)
(***************************************************************************)

\* C23: lookups return sentinels and leave the module alone: for every
\* kind X, GetXIndex(v) is an Index, v's own index when v is in Index form,
\* even beyond the handle array, and kInvalidIndex when v is a name without
\* a binding; GetX(v) is the null handle when the resolved index is not
\* less than the size of X's handle array and the handle at that index
\* otherwise.
C23_LookupsReturnSentinels ==
  \A kind \in BindingKinds : \A v \in QueryVars :
    LET idx == GetIndex(kind, v)
    IN  /\ idx \in 0..kInvalidIndex
        /\ is_index(v) => idx = v.index_
        /\ (is_name(v) /\ EqualRange(m_bindings[kind], v.name_) = {})
             => idx = kInvalidIndex
        /\ idx >= Len(m_handles[kind]) => Get(kind, v) = nullptr
        /\ idx < Len(m_handles[kind]) =>
             /\ Get(kind, v) = m_handles[kind][idx + 1]
             /\ Get(kind, v) # nullptr
             /\ KindOf(m_fields[Get(kind, v)]) = kind

\* C23 witness: the table $f and an unnamed global: $f resolves to table 0
\* and its handle, the unbound $h to kInvalidIndex and no handle, and the
\* index 1 is returned as it is although no table has it.
C23_Witness ==
  /\ Len(m_fields) = 2
  /\ m_fields[1].type = "Table" /\ m_fields[1].name = "$f"
  /\ m_fields[2].type = "Global" /\ m_fields[2].name = ""
  /\ GetIndex("Table", NameVar("$f")) = 0
  /\ Get("Table", NameVar("$f")) = 1
  /\ Get("Global", IndexVar(0)) = 2
  /\ GetIndex("Table", NameVar(UnboundName)) = kInvalidIndex
  /\ Get("Table", NameVar(UnboundName)) = nullptr
  /\ GetIndex("Table", IndexVar(1)) = 1
  /\ Get("Table", IndexVar(1)) = nullptr
  /\ GetIndex("Global", NameVar("$f")) = kInvalidIndex

\* The entries of a binding table, whatever their order.
Entries(bindings) == {bindings[i] : i \in 1..Len(bindings)}

\* What one AppendField call does to the module: the step from the
\* unprimed to the primed state appends one field of some kind.
AppendFieldStep ==
  LET loc == Len(m_fields) + 1
      field == m_fields'[loc]
      kind == KindOf(field)
  IN  /\ m_fields' = Append(m_fields, field)
      /\ m_handles'[kind] = Append(m_handles[kind], loc)
      /\ \A k \in BindingKinds \ {kind} :
           /\ m_handles'[k] = m_handles[k]
           /\ m_bindings'[k] = m_bindings[k]
      /\ Entries(m_bindings[kind]) \subseteq Entries(m_bindings'[kind])
      /\ Len(m_bindings'[kind]) \in
           {Len(m_bindings[kind]), Len(m_bindings[kind]) + 1}
      /\ IF field.type = "Import"
         THEN /\ m_imports' = Append(m_imports, loc)
              /\ m_num_imports'[kind] = m_num_imports[kind] + 1
              /\ \A k \in ExternalKinds \ {kind} :
                   m_num_imports'[k] = m_num_imports[k]
         ELSE /\ m_imports' = m_imports
              /\ m_num_imports' = m_num_imports

\* The handles of a kind are the places of the kind's fields in the field
\* list, in increasing order.
HandlesInFieldOrder ==
  \A kind \in BindingKinds :
    /\ \A i \in 1..Len(m_handles[kind]) :
         /\ m_handles[kind][i] \in 1..Len(m_fields)
         /\ KindOf(m_fields[m_handles[kind][i]]) = kind
    /\ \A i \in 1..(Len(m_handles[kind]) - 1) :
         m_handles[kind][i] < m_handles[kind][i + 1]

\* C26: AppendField is append-only and kind-local: a field of kind X goes
\* to the end of the field list and of X's handle array, an import also to
\* the end of the imports array with only the counter of X incremented;
\* the handle arrays, binding tables and counters of the other kinds and
\* all the entries appended before stay as they are, so the field list
\* lists the fields in the order they were appended.
C26_AppendFieldFrame ==
  /\ []HandlesInFieldOrder
  /\ [][m_fields' # m_fields => AppendFieldStep]_vars

\* C26 witness: the global import $f was appended after the table $f: it
\* is global 0, the only import, and the table's binding and handle are
\* those from before.
C26_Witness ==
  /\ Len(m_fields) = 2
  /\ m_fields[1].type = "Table" /\ m_fields[1].name = "$f"
  /\ m_last.type = "Import" /\ m_last.kind = "Global" /\ m_last.name = "$f"
  /\ m_handles["Global"] = <<2>>
  /\ m_handles["Table"] = <<1>>
  /\ m_imports = <<2>>
  /\ m_num_imports["Global"] = 1
  /\ m_num_imports["Table"] = 0
  /\ m_bindings["Table"] = <<[name |-> "$f", binding |-> Binding(1, 0)]>>

\* C28: after any sequence of AppendField calls, for every import kind X
\* num_x_imports is at most the size of X's handle array, the imports
\* array has as many entries as the counters add up to, and every index in
\* a kind's binding table is less than the size of the kind's handle array
\* and is that of an entity carrying the bound name.
C28_CachesConsistent ==
  /\ \A kind \in ExternalKinds :
       m_num_imports[kind] <= Len(m_handles[kind])
  /\ Len(m_imports) =
       m_num_imports["Func"] + m_num_imports["Table"]
         + m_num_imports["Memory"] + m_num_imports["Global"]
         + m_num_imports["Event"]
  /\ \A kind \in BindingKinds :
       \A e \in Entries(m_bindings[kind]) :
         /\ e.binding.index < Len(m_handles[kind])
         /\ m_fields[m_handles[kind][e.binding.index + 1]].name = e.name

\* C28 witness: the memory import $f and then the event import $f: two
\* imports, one counted for each kind, each bound to index 0 of its kind.
C28_Witness ==
  /\ Len(m_fields) = 2
  /\ m_fields[1].type = "Import" /\ m_fields[1].kind = "Memory"
  /\ m_fields[2].type = "Import" /\ m_fields[2].kind = "Event"
  /\ m_fields[1].name = "$f" /\ m_fields[2].name = "$f"
  /\ Len(m_imports) = 2
  /\ m_num_imports["Memory"] = 1 /\ m_num_imports["Event"] = 1
  /\ Len(m_handles["Memory"]) = 1 /\ Len(m_handles["Event"]) = 1
  /\ FindIndex(m_bindings["Memory"], "$f") = 0
  /\ FindIndex(m_bindings["Event"], "$f") = 0

\* Every ImportModuleField of the kind was appended before any definition
\* of the kind.
ImportsFirst(kind) ==
  \A p \in ImportFields(kind) : \A q \in 1..(p - 1) :
    KindOf(m_fields[q]) # kind

\* C29: if every import of kind X was appended before any definition of
\* kind X, then for every index i below the size of X's handle array
\* IsImport(X, Var(i)) is true exactly when entity i was appended through
\* an ImportModuleField; AppendField takes an import after a definition of
\* its kind without error: the import gets the next index and is counted.
C29_ImportsFirst ==
  /\ \A kind \in ExternalKinds :
       ImportsFirst(kind) =>
         \A i \in 0..(Len(m_handles[kind]) - 1) :
           IsImport(kind, IndexVar(i))
             <=> m_fields[m_handles[kind][i + 1]].type = "Import"
  /\ \A kind \in ExternalKinds :
       ENABLED AppendField(ModuleField("Import", kind, "", Payload))
  /\ (m_last.type = "Import" /\ ~ImportsFirst(m_last.kind)) =>
       /\ m_fields[Len(m_fields)].type = "Import"
       /\ m_handles[m_last.kind][m_last.index + 1] = Len(m_fields)
       /\ m_last.index > 0
       /\ m_num_imports[m_last.kind] = Cardinality(ImportFields(m_last.kind))

\* C29 witness: the global import $f, then an unnamed global definition:
\* global 0 is an import and global 1 is none.
C29_Witness ==
  /\ Len(m_fields) = 2
  /\ m_fields[1].type = "Import" /\ m_fields[1].kind = "Global"
  /\ m_fields[1].name = "$f"
  /\ m_fields[2].type = "Global" /\ m_fields[2].name = ""
  /\ ImportsFirst("Global")
  /\ IsImport("Global", IndexVar(0))
  /\ ~IsImport("Global", IndexVar(1))

(***************************************************************************)
(* Properties of Func                                                      *)
(***************************************************************************)

\* C24: parameters and locals share one index space, parameters first:
\* GetLocalType(i) is the i-th parameter type of decl.sig for
\* i < GetNumParams() and local_types[i - GetNumParams()] for
\* GetNumParams() <= i < GetNumParamsAndLocals();
\* GetNumParamsAndLocals() = GetNumParams() + local_types.size(); and
\* GetLocalIndex(v) is v's index as it is for an Index var and an
\* out-of-range sentinel for a name the function's bindings do not hold.
C24_ParamsThenLocals ==
  LET num_params == GetNumParams(f_func)
      total == GetNumParamsAndLocals(f_func)
      arg == f_ret.arg
  IN  /\ total = num_params + size(f_func.local_types)
      /\ f_ret.call = "GetLocalType" =>
           /\ arg.index_ < num_params =>
                /\ f_ret.status = "value"
                /\ f_ret.type = f_func.decl.sig.param_types[arg.index_ + 1]
           /\ (num_params <= arg.index_ /\ arg.index_ < total) =>
                /\ f_ret.status = "value"
                /\ f_ret.type =
                     Iterate(f_func.local_types)[arg.index_ - num_params + 1]
                /\ f_ret.type =
                     operator_subscript(f_func.local_types,
                                        arg.index_ - num_params).type
      /\ f_ret.call = "GetLocalIndex" =>
           /\ is_index(arg) => f_ret.index = arg.index_
           /\ (is_name(arg) /\ EqualRange(f_func.bindings, arg.name_) = {}) =>
                /\ f_ret.index = kInvalidIndex
                /\ f_ret.index >= total
           /\ (is_name(arg) /\ EqualRange(f_func.bindings, arg.name_) # {}) =>
                f_ret.index < num_params

\* C24 witness: (param $x i32) (param f64) with locals f64, f64, i32:
\* GetLocalType(4) is the third local, i32.
C24_Witness ==
  /\ f_func.decl.sig.param_types = <<"I32", "F64">>
  /\ f_func.local_types = << [first |-> "F64", second |-> 2],
                            [first |-> "I32", second |-> 1] >>
  /\ FindIndex(f_func.bindings, "$x") = 0
  /\ GetNumParamsAndLocals(f_func) = 5
  /\ f_ret.call = "GetLocalType"
  /\ f_ret.arg = IndexVar(4)
  /\ f_ret.type = "I32"

\* The names a binding table binds to an index, and the place of a name in
\* the order of strings.
NamesOf(bindings, idx) ==
  {e.name : e \in {b \in Entries(bindings) : b.binding.index = idx}}
NameRank(nm) == CHOOSE i \in 1..Len(LocalNames) : LocalNames[i] = nm

\* C21: MakeTypeBindingReverseMapping(num_types, bindings, out) gives
\* exactly num_types strings; out[i] is a name bound to index i, the empty
\* string when no name is bound to i, and the lexicographically first of
\* the names when several are bound to i.
C21_ReverseMapping ==
  f_ret.call = "MakeTypeBindingReverseMapping" =>
    LET num_types == GetNumParamsAndLocals(f_func)
        out == f_ret.out
    IN  /\ Len(out) = num_types
        /\ \A i \in 0..(num_types - 1) :
             LET names == NamesOf(f_func.bindings, i)
             IN  IF names = {} THEN out[i + 1] = ""
                 ELSE /\ out[i + 1] \in names
                      /\ \A nm \in names : NameRank(out[i + 1]) <= NameRank(nm)

\* C21 witness: two parameters, the first named $y by the text and $x by
\* a later binding, the second without a name: out is ($x, "").
C21_Witness ==
  /\ GetNumParams(f_func) = 2
  /\ f_func.bindings = << [name |-> "$y", binding |-> Binding(1, 0)],
                          [name |-> "$x", binding |-> Binding(2, 0)] >>
  /\ f_ret.call = "MakeTypeBindingReverseMapping"
  /\ f_ret.out = <<"$x", "">>

(***************************************************************************)
(* Properties of the resolution of names                                   *)
(***************************************************************************)

\* The Vars of a module, each with its place and its namespace.
VarsOf(fields) ==
  UNION {
    LET p == fields[place].payload
    IN  {[place |-> place, slot |-> "type_var", i |-> 0, kind |-> "FuncType",
          var |-> p.decl.type_var] : x \in {y \in {0} : p.decl.has_func_type}}
        \cup {[place |-> place, slot |-> "var", i |-> 0,
               kind |-> IF fields[place].type = "ElemSegment" THEN "Table"
                        ELSE "Memory",
               var |-> p.var] :
                x \in {y \in {0} : fields[place].type
                                     \in {"ElemSegment", "DataSegment"}}}
        \cup {[place |-> place, slot |-> "elem_exprs", i |-> i,
               kind |-> "Func", var |-> p.elem_exprs[i].var] :
                i \in {j \in 1..Len(p.elem_exprs) :
                         p.elem_exprs[j].kind = "RefFunc"}}
        \cup {[place |-> place, slot |-> "exprs", i |-> i,
               kind |-> p.exprs[i].kind, var |-> p.exprs[i].var] :
                i \in 1..Len(p.exprs)}
    : place \in 1..Len(fields)}

\* The indices a namespace binds a name to.
BoundTo(kind, nm) ==
  {e.binding.index : e \in {b \in Entries(m_bindings[kind]) : b.name = nm}}

\* The step of the pass over a module in which every name has a binding.
ResolveStep ==
  LET before == VarsOf(m_fields)
      after == VarsOf(m_fields')
  IN  (\A r \in before : is_name(r.var) => BoundTo(r.kind, r.var.name_) # {})
      => /\ Cardinality(after) = Cardinality(before)
         /\ \A r \in after : is_index(r.var)
         /\ \A r \in before :
              \E q \in after :
                /\ <<q.place, q.slot, q.i, q.kind>>
                     = <<r.place, r.slot, r.i, r.kind>>
                /\ is_index(r.var) => q.var = r.var
                /\ is_name(r.var) =>
                     q.var.index_ \in BoundTo(r.kind, r.var.name_)

\* The table operands of the functions of the test after the pass.
TableOperands ==
  [k \in 1..Len(m_handles["Func"]) |->
     LET exprs == m_fields[m_handles["Func"][k]].payload.exprs
     IN  IF exprs = <<>> THEN kInvalidIndex ELSE exprs[1].var.index_]

\* C22: after the resolution pass over a module in which every name has a
\* binding in its namespace, no Var of the module is in Name form and the
\* index of each rewritten Var is one its name was bound to; in the
\* reference-types test table.get $foo, $bar and table.size $baz become
\* the table indices 0, 1 and 2.
C22_NamesResolved ==
  /\ [][m_last'.type = "ResolveNames" => ResolveStep]_vars
  /\ []((m_last.type = "ResolveNames" /\ Len(m_fields) = Len(TestModule))
          => TableOperands = TestTableOperands)

\* C22 witness: the pass has run over the module of the test: $f1 of the
\* first segment is function 0 and table.size $baz reads table 2.
C22_Witness ==
  /\ m_last.type = "ResolveNames"
  /\ Len(m_fields) = Len(TestModule)
  /\ m_fields[1].name = "$foo"
  /\ m_fields[4].payload.elem_exprs = <<RefFunc(IndexVar(0))>>
  /\ m_fields[6].payload.exprs[1].var = IndexVar(0)
  /\ m_fields[7].payload.exprs[1].var = IndexVar(1)
  /\ m_fields[15].payload.exprs[1] =
       [opcode |-> "table.size", kind |-> "Table", var |-> IndexVar(2)]
  /\ \A r \in VarsOf(m_fields) : is_index(r.var)

=============================================================================
